---- MODULE Spec2Model ----
(***************************************************************************)
(* Camera Data Imputation Engine (src/robot.py, class CameraDataImputer). *)
(*                                                                         *)
(* The store is the SQLite table peopleflowtotals; the engine loads the   *)
(* confirmed records of one (client, location) pair, flags the failing    *)
(* camera-hours of the last loaded day, estimates them and writes the     *)
(* estimates back.  Floating-point quantities of the source are modelled   *)
(* as exact rationals (numerator/denominator over the integers) and       *)
(* int(x) as the floor of a non-negative rational.                         *)
(***************************************************************************)
EXTENDS Integers, Sequences, FiniteSets, TLC

\* ------------------------------------------------------------------ bounds
\* Number of invocations of run_imputation on the same store.
MaxRuns == 2
\* Number of past weeks (same weekday as the target day) that may hold history.
HistWeeks == 3
\* Number of times the storage layer may be unreachable when a pair connects.
MaxFaults == 1
\* Number of load_data_for_client_location calls on one caching engine.
MaxLoads == 3

\* --------------------------------------------------------------- constants
\* days_back of run_imputation.
DaysBack == 45
\* First Monday of the modelled calendar, counted in days from an older
\* Monday (day 0), so that a record older than the lookback window exists.
BaseDay == 7 * 4

\* ------------------------------------------------------------- time & keys
\* created_at is the canonical '%Y-%m-%d %H:00:00' text; it is modelled as the
\* number of hours since 00:00 of day 0 (a Monday), which orders and compares
\* like the text does.
Timestamp(day, hour) == day * 24 + hour
DateOf(ts) == ts \div 24
HourOf(ts) == ts % 24
WeekdayOf(day) == day % 7

convert_timestamp_for_sqlite(dt) == Timestamp(dt.day, dt.hour)

MondayOf(w) == BaseDay + 7 * w
TargetDay == BaseDay + 7 * HistWeeks
SundayBefore == TargetDay - 1
\* The engine runs in the small hours of the day after the target day.
Now == Timestamp(TargetDay + 1, 3)

\* ----------------------------------------------------------- login_camera
Cameras == {1, 2, 3}
PairA == <<"net3rcorp", "teste">>
PairB == <<"net3rcorp", "loja">>
PairC == <<"acme", "vazio">>

\* The rows of login_camera: client, location and the weekly schedule, the
\* pair (counting_hour_<weekday>, counting_hour_<weekday>_qtd) per weekday
\* (0 = Monday); Null stands for a NULL column.
Null == 0 - 1
login_camera ==
    [c \in Cameras |->
        CASE c = 1 -> [client |-> PairA[1], location |-> PairA[2],
                       counting_hour |-> [wd \in 0..6 |-> <<10, 11>>]]
          [] c = 2 -> [client |-> PairA[1], location |-> PairA[2],
                       counting_hour |-> [wd \in 0..6 |-> <<10, 10>>]]
          [] c = 3 -> [client |-> PairB[1], location |-> PairB[2],
                       counting_hour |-> [wd \in 0..6 |-> <<10, 11>>]]]

Min2(a, b) == IF a < b THEN a ELSE b
Max2(a, b) == IF a > b THEN a ELSE b

\* ------------------------------------------------------- sets of records
RECURSIVE SumCol(_, _)
SumCol(S, col) ==
    IF S = {} THEN 0
    ELSE LET r == CHOOSE x \in S : TRUE IN r[col] + SumCol(S \ {r}, col)

SumTotal(S) == SumCol(S, "total_inside") + SumCol(S, "total_outside")

MinId(S) == CHOOSE r \in S : \A q \in S : r.id <= q.id

\* The values of column col over S, ascending, with repetitions.
RECURSIVE SortedCol(_, _)
SortedCol(S, col) ==
    IF S = {} THEN <<>>
    ELSE LET r == CHOOSE x \in S : \A q \in S : x[col] <= q[col]
         IN <<r[col]>> \o SortedCol(S \ {r}, col)

\* ------------------------------------------------------------------ state
VARIABLES
    store,                    \* rows of peopleflowtotals
    data_imputation_log,      \* rows of data_imputation_log, oldest first
    target_client_locations,  \* constructor argument: the pairs to process
    pc,                       \* position in run_imputation / process_client_location
    run,                      \* invocations of run_imputation started so far
    pair_idx,                 \* index of the current pair in the list
    cameras_df,               \* ids of the loaded login_camera rows
    flow_df,                  \* loaded rows of peopleflowtotals
    target_date,              \* get_last_valid_day() of the current pair
    failing_cameras,          \* result of identify_failing_cameras
    estimated_data,           \* result of estimate_missing_data
    client_locations,         \* run_imputation's list of pairs
    all_results,              \* run_imputation's list of results
    faults,                   \* storage failures injected so far
    store_after,              \* the store as each finished invocation left it
    call_args,                \* arguments of a direct call to a method
    call_result,              \* what the direct call returned
    workers,                  \* engine instances running side by side on the store
    flow_df_valid,            \* robot_new.py: the confirmed-only view of flow_df
    data_cache                \* robot_new.py: cache key -> (cameras_df, flow_df)

vars == <<store, data_imputation_log, target_client_locations, pc, run, pair_idx,
          cameras_df, flow_df, target_date, failing_cameras, estimated_data,
          client_locations, all_results, faults, store_after, call_args, call_result,
          workers, flow_df_valid, data_cache>>

\* ---------------------------------------------------------------- loading
\* SELECT ... FROM login_camera WHERE client = ? AND location = ?
CamerasOf(pair) ==
    {c \in Cameras : login_camera[c].client = pair[1] /\ login_camera[c].location = pair[2]}

\* The query without its camera_id IN (...) condition.
LoadFlow_AllCameras(st, cams, days_back) ==
    {r \in st : r.created_at >= Now - days_back * 24 /\ r.valid = 1}

\* SELECT ... FROM peopleflowtotals WHERE created_at >= cutoff
\*   AND camera_id IN (cameras of the pair) AND valid = 1
LoadFlow(st, cams, days_back) ==
    {r \in st : /\ r.created_at >= Now - days_back * 24
                /\ r.camera_id \in cams
                /\ r.valid = 1}

load_data_for_client_location(st, pair, days_back) ==
    LET cams == CamerasOf(pair)
        flow == LoadFlow(st, cams, days_back)
    IN  IF cams = {} THEN [ok |-> FALSE, cameras_df |-> {}, flow_df |-> {}]
        ELSE IF flow = {} THEN [ok |-> FALSE, cameras_df |-> cams, flow_df |-> {}]
        ELSE [ok |-> TRUE, cameras_df |-> cams, flow_df |-> flow]

\* The body of get_camera_active_hours for a camera that is (known) or is not
\* a row of cameras_df, e being the row's pair of schedule columns for the
\* weekday.
ResolveSchedule(known, weekday, e) ==
    IF ~known THEN <<0, 23>>
    ELSE IF weekday \notin 0..6 THEN <<0, 23>>
    ELSE IF e[1] = Null \/ e[2] = Null THEN <<0, 23>>
    ELSE <<Max2(0, Min2(23, e[1])), Max2(0, Min2(23, e[2]))>>

get_camera_active_hours(cams, camera_id, weekday) ==
    ResolveSchedule(camera_id \in cams, weekday,
                    IF camera_id \in cams /\ weekday \in 0..6
                    THEN login_camera[camera_id].counting_hour[weekday]
                    ELSE <<Null, Null>>)

\* list(range(start_hour, end_hour + 1))
ActiveHours(cams, camera_id, weekday) ==
    LET se == get_camera_active_hours(cams, camera_id, weekday)
    IN  IF se[2] < se[1] THEN <<>> ELSE [i \in 1..(se[2] - se[1] + 1) |-> se[1] + i - 1]

SeqToSet(s) == {s[i] : i \in 1..Len(s)}

\* flow_df['date'].max()
get_last_valid_day(flow) ==
    IF flow = {} THEN Null
    ELSE DateOf((CHOOSE r \in flow : \A q \in flow : q.created_at <= r.created_at).created_at)

\* ------------------------------------------------------ failure detector
\* flow_df filtered on (camera_id, hour, weekday): every loaded day, the
\* target day included.
HistData(flow, camera_id, hour, weekday) ==
    {r \in flow : /\ r.camera_id = camera_id
                  /\ HourOf(r.created_at) = hour
                  /\ WeekdayOf(DateOf(r.created_at)) = weekday}

RECURSIVE SumSqTotal(_)
SumSqTotal(S) ==
    IF S = {} THEN 0
    ELSE LET r == CHOOSE x \in S : TRUE
             t == r.total_inside + r.total_outside
         IN  t * t + SumSqTotal(S \ {r})

\* count, sum = count * mean, and ssd = count * (count - 1) * std^2 of the
\* total traffic (pandas std has ddof = 1).
_get_historical_statistics(flow, camera_id, hour, weekday) ==
    LET h == HistData(flow, camera_id, hour, weekday)
        n == Cardinality(h)
        s == SumTotal(h)
    IN  [count |-> n, sum |-> s, ssd |-> n * SumSqTotal(h) - s * s]

\* Criterion 1: current_count / hist_avg < 0.1
TenTimesLower(cur, st) == 10 * cur * st.count < st.sum
\* Criterion 2: current_count < hist_avg * 0.2
BelowFifthOfMean(cur, st) == 5 * cur * st.count < st.sum
\* Criterion 3: hist_std > 0 and abs(current_count - hist_avg) / hist_std > 3
OutsideThreeSigma(cur, st) ==
    /\ st.ssd > 0
    /\ (st.count * cur - st.sum) * (st.count * cur - st.sum) * (st.count - 1)
          > 9 * st.count * st.ssd
\* Criterion 4: both counts positive and inside / current_count outside [0.3, 0.9]
AbnormalBalance(ins, outs) ==
    /\ ins > 0 /\ outs > 0
    /\ (10 * ins < 3 * (ins + outs) \/ 10 * ins > 9 * (ins + outs))
\* Insufficient history: current_count < 10
BelowAbsoluteFloor(cur) == cur < 10

\* The body of the loop over active_hours for one (camera, hour).
HourFails(flow, camera_id, hour, day) ==
    LET hour_data == {r \in flow : /\ r.camera_id = camera_id
                                   /\ DateOf(r.created_at) = day
                                   /\ HourOf(r.created_at) = hour
                                   /\ r.valid = 1}
    IN  IF hour_data = {} THEN TRUE
        ELSE LET row == MinId(hour_data)
                 cur == row.total_inside + row.total_outside
                 st  == _get_historical_statistics(flow, camera_id, hour, WeekdayOf(day))
             IN  IF st.count >= 3 /\ st.sum > 0
                 THEN IF TenTimesLower(cur, st) THEN TRUE
                      ELSE IF BelowFifthOfMean(cur, st) THEN TRUE
                      ELSE IF OutsideThreeSigma(cur, st) THEN TRUE
                      ELSE AbnormalBalance(row.total_inside, row.total_outside)
                 ELSE BelowAbsoluteFloor(cur)

\* camera -> ordered list of failing hours, for the cameras that have any.
identify_failing_cameras(flow, cams, day) ==
    LET failed(c) == SelectSeq(ActiveHours(cams, c, WeekdayOf(day)),
                               LAMBDA h : HourFails(flow, c, h, day))
    IN  [c \in {x \in cams : failed(x) # <<>>} |-> failed(c)]

\* ------------------------------------------------------- weekday factors
Abs(x) == IF x < 0 THEN 0 - x ELSE x

RECURSIVE SumOver(_, _)
SumOver(f, S) ==
    IF S = {} THEN 0 ELSE LET x == CHOOSE y \in S : TRUE IN f[x] + SumOver(f, S \ {x})

RECURSIVE Gcd(_, _)
Gcd(a, b) == IF b = 0 THEN a ELSE Gcd(b, a % b)

\* Least common multiple, and greatest common divisor, of the values of f over S.
RECURSIVE LcmOver(_, _)
LcmOver(f, S) ==
    IF S = {} THEN 1
    ELSE LET x == CHOOSE y \in S : TRUE
             l == LcmOver(f, S \ {x})
         IN  (f[x] \div Gcd(f[x], l)) * l

RECURSIVE GcdOver(_, _)
GcdOver(f, S) ==
    IF S = {} THEN 0 ELSE LET x == CHOOSE y \in S : TRUE IN Gcd(f[x], GcdOver(f, S \ {x}))

\* A float of the source is a record [num, den] with den > 0; den = 0 is NaN.
One == [num |-> 1, den |-> 1]
IsNaN(f) == f.den = 0

\* The loop that fills the weekdays without data, in ascending order:
\* min(distances) is taken over the keys weekday_factors has by then, the
\* weekdays with data and those already filled (ties: the smaller weekday).
\* The weekday with data whose factor weekday wd ends with.
RECURSIVE FilledFrom(_, _)
FilledFrom(wd, WD) ==
    IF wd \in WD THEN wd
    ELSE LET keys == WD \cup 0..(wd - 1)
             nearest_wd == CHOOSE o \in keys : \A q \in keys :
                              \/ Abs(wd - o) < Abs(wd - q)
                              \/ (Abs(wd - o) = Abs(wd - q) /\ o <= q)
         IN  FilledFrom(nearest_wd, WD)

\* weekday -> factor.  For a weekday with records inside the camera's active
\* range: (total traffic / number of distinct active hours with data), divided
\* by the mean of these averages over the weekdays that have one; a weekday
\* without is filled by the loop above.  All-zero traffic gives 0.0 / 0.0 = NaN.
_get_weekday_patterns(flow, cams, camera_id) ==
    LET camera_data == {r \in flow : r.camera_id = camera_id}
        hours(wd) ==
            LET se == get_camera_active_hours(cams, camera_id, wd)
            IN  {h \in 0..23 : /\ se[1] <= h /\ h <= se[2]
                               /\ \E r \in camera_data :
                                     /\ WeekdayOf(DateOf(r.created_at)) = wd
                                     /\ HourOf(r.created_at) = h}
        rows(wd, hs) == {r \in camera_data : /\ WeekdayOf(DateOf(r.created_at)) = wd
                                             /\ HourOf(r.created_at) \in hs}
        \* N[wd] / D is the hourly average of weekday wd.
        factors(WD, N) ==
            [wd \in 0..6 |->
                [num |-> Cardinality(WD) * N[FilledFrom(wd, WD)],
                 den |-> SumOver(N, WD)]]
        averages(WD, D) ==
            factors(WD, [wd \in WD |->
                            SumTotal(rows(wd, hours(wd))) * (D \div Cardinality(hours(wd)))])
        patterns(WD) ==
            IF camera_data = {} \/ WD = {} THEN [wd \in 0..6 |-> One]
            ELSE averages(WD, LcmOver([wd \in WD |-> Cardinality(hours(wd))], WD))
    IN  patterns({wd \in 0..6 : hours(wd) # {}})

\* int(mean * factor) for mean = sum / n and a factor that is not NaN.
IntMeanTimesFactor(sum, n, f) == (sum * f.num) \div (n * f.den)

\* ----------------------------------------------------- own-history baseline
\* hour -> (inside, outside) for the hours with at least 2 records at
\* (camera, hour, weekday); int(NaN) raises ValueError.
_get_own_history_baseline(flow, cams, camera_id, missing_hours, day) ==
    LET hist(h) == HistData(flow, camera_id, h, WeekdayOf(day))
        scaled(rows, f) ==
            <<IntMeanTimesFactor(SumCol(rows, "total_inside"), Cardinality(rows), f),
              IntMeanTimesFactor(SumCol(rows, "total_outside"), Cardinality(rows), f)>>
        baseline(with, f) ==
            IF with # {} /\ IsNaN(f) THEN [error |-> TRUE, baseline |-> <<>>]
            ELSE [error |-> FALSE, baseline |-> [h \in with |-> scaled(hist(h), f)]]
    IN  baseline({h \in SeqToSet(missing_hours) : Cardinality(hist(h)) >= 2},
                 _get_weekday_patterns(flow, cams, camera_id)[WeekdayOf(day)])

\* ------------------------------------------------------ cross-camera ratio
RatLeq(a, b) == a.num * b.den <= b.num * a.den

\* The values of the function r over the set S, ascending.
RECURSIVE SortedRatios(_, _)
SortedRatios(r, S) ==
    IF S = {} THEN <<>>
    ELSE LET x == CHOOSE y \in S : \A z \in S : RatLeq(r[y], r[z])
         IN  <<r[x]>> \o SortedRatios(r, S \ {x})

\* np.median
Median(rs) ==
    LET n == Len(rs)
    IN  IF n % 2 = 1 THEN rs[(n + 1) \div 2]
        ELSE LET a == rs[n \div 2]
                 b == rs[n \div 2 + 1]
             IN  [num |-> a.num * b.den + b.num * a.den, den |-> 2 * a.den * b.den]

DatesOf(S) == {DateOf(r.created_at) : r \in S}
OnDate(S, d) == {r \in S : DateOf(r.created_at) = d}

\* total_b / total_a per common date with total_a > 0, as date -> ratio.
DateRatios(flow, camera_a, camera_b, hour, weekday) ==
    LET ratios(data_a, data_b) ==
            [d \in {x \in DatesOf(data_a) \cap DatesOf(data_b) :
                        SumTotal(OnDate(data_a, x)) > 0} |->
                [num |-> SumTotal(OnDate(data_b, d)), den |-> SumTotal(OnDate(data_a, d))]]
    IN  ratios(HistData(flow, camera_a, hour, weekday), HistData(flow, camera_b, hour, weekday))

CommonDates(flow, camera_a, camera_b, hour, weekday) ==
    DatesOf(HistData(flow, camera_a, hour, weekday))
        \cap DatesOf(HistData(flow, camera_b, hour, weekday))

\* The definition of _get_hourly_ratio bound on the class (the later one in
\* the file): median of all per-date ratios, 0 with fewer than 2 common dates.
_get_hourly_ratio(flow, camera_a, camera_b, hour, weekday) ==
    LET median(r) ==
            IF Cardinality(CommonDates(flow, camera_a, camera_b, hour, weekday)) < 2
               \/ DOMAIN r = {}
            THEN [num |-> 0, den |-> 1]
            ELSE Median(SortedRatios(r, DOMAIN r))
    IN  median(DateRatios(flow, camera_a, camera_b, hour, weekday))

\* Confidence in twentieths: min(n / 10, 1.0), halved when there are at least
\* 3 ratios and np.std(ratios) / np.mean(ratios) > 0.5.
\* std / mean > 0.5 for m values of sum s1 whose pairwise squared differences
\* sum to p = m * (sum of squares) - s1^2:  4 * p > s1^2, compared through
\* t = s1 \div 2 to stay within the integers of the checker.
SpreadAbove(m, s1, p) ==
    /\ m >= 3
    /\ s1 > 0
    /\ IF s1 % 2 = 0 THEN (s1 \div 2) * (s1 \div 2) < p
       ELSE (s1 \div 2) * (s1 \div 2) + (s1 \div 2) < p

\* The ratios over a common denominator, divided by their common factor (the
\* coefficient of variation does not depend on the scale).
Numerators(r) ==
    LET onto(L) == [d \in DOMAIN r |-> r[d].num * (L \div r[d].den)]
        reduce(Q) == [d \in DOMAIN r |-> Q[d] \div Max2(1, GcdOver(Q, DOMAIN r))]
    IN  reduce(onto(LcmOver([d \in DOMAIN r |-> r[d].den], DOMAIN r)))

\* The sum over the unordered pairs of (R[a] - R[b])^2.
PairSpread(R) ==
    LET pairs == {ab \in (DOMAIN R) \X (DOMAIN R) : ab[1] < ab[2]}
    IN  SumOver([ab \in pairs |-> (R[ab[1]] - R[ab[2]]) * (R[ab[1]] - R[ab[2]])], pairs)

HighCV(R) == SpreadAbove(Cardinality(DOMAIN R), SumOver(R, DOMAIN R), PairSpread(R))

_get_ratio_confidence(flow, camera_a, camera_b, hour, weekday) ==
    LET confidence(n, highcv) ==
            IF n < 2 THEN 0
            ELSE IF highcv THEN Min2(n, 10) ELSE Min2(2 * n, 20)
    IN  confidence(Cardinality(CommonDates(flow, camera_a, camera_b, hour, weekday)),
                   HighCV(Numerators(DateRatios(flow, camera_a, camera_b, hour, weekday))))

\* ------------------------------------------------------ estimate combiner
\* The own-history values o in 0..100 for which the IEEE-754 double
\* w * 0.7 + o * 0.3 falls just short of the integer (7w + 3o) / 10, so that
\* int() returns one less than the exact value; tabulated for w in 0..250.
RoundsShort(w) ==
    CASE
         w = 1 -> {31, 41, 51}
      [] w = 2 -> {62, 72, 82, 92}
      [] w = 3 -> {3}
      [] w = 6 -> {6, 36}
      [] w = 7 -> {57, 67, 77, 87}
      [] w = 11 -> {1}
      [] w = 12 -> {2, 12, 22, 62, 72}
      [] w = 14 -> {4}
      [] w = 17 -> {7, 57, 67}
      [] w = 19 -> {9}
      [] w = 22 -> {2}
      [] w = 23 -> {3, 13, 23, 53}
      [] w = 24 -> {4, 14, 24, 34, 44}
      [] w = 28 -> {8, 18}
      [] w = 29 -> {9, 19, 29, 39}
      [] w = 33 -> {3, 13, 23}
      [] w = 34 -> {4, 14, 24}
      [] w = 38 -> {8, 18}
      [] w = 39 -> {9}
      [] w = 43 -> {3}
      [] w = 44 -> {4}
      [] w = 46 -> {6, 16, 26, 36, 46, 96}
      [] w = 48 -> {8, 18, 28, 38, 48, 58, 68, 78, 88, 98}
      [] w = 51 -> {1, 11, 21, 31, 41, 51}
      [] w = 53 -> {3, 13, 23, 33, 43, 53, 63, 73, 83}
      [] w = 56 -> {6, 16, 26, 36, 46}
      [] w = 58 -> {8, 18, 28, 38, 48, 58, 68, 78}
      [] w = 61 -> {1, 11, 21, 31, 41, 51}
      [] w = 63 -> {3, 13, 23, 33, 43, 53, 63}
      [] w = 66 -> {6, 16, 26, 36, 46}
      [] w = 68 -> {8, 18, 28, 38, 48}
      [] w = 71 -> {1, 11, 21, 31, 41}
      [] w = 73 -> {3, 13, 23, 33, 43}
      [] w = 76 -> {6, 16, 26, 36}
      [] w = 78 -> {8, 18, 28}
      [] w = 81 -> {1, 11, 21}
      [] w = 83 -> {3, 13}
      [] w = 85 -> {5, 15}
      [] w = 86 -> {6}
      [] w = 88 -> {8}
      [] w = 90 -> {0}
      [] w = 91 -> {1}
      [] w = 92 -> {2, 12, 22, 32, 42, 52, 62, 72, 82, 92}
      [] w = 96 -> {6, 16, 26, 36, 46, 56, 66, 76, 86, 96}
      [] w = 97 -> {7, 17, 27, 37, 47, 57, 67, 77, 87, 97}
      [] w = 101 -> {1, 11, 21, 31, 41, 51, 61, 71, 81, 91}
      [] w = 102 -> {2, 12, 22, 32, 42, 52, 62, 72, 82, 92}
      [] w = 106 -> {6, 16, 26, 36, 46, 56, 66, 76, 86, 96}
      [] w = 107 -> {7, 17, 27, 37, 47, 57, 67, 77, 87, 97}
      [] w = 111 -> {1, 11, 21, 31, 41, 51, 61, 71, 81, 91}
      [] w = 112 -> {2, 12, 22, 32, 42, 52, 62, 72, 82, 92}
      [] w = 116 -> {6, 16, 26, 36, 46, 56, 66, 76, 86, 96}
      [] w = 117 -> {7, 17, 27, 37, 47, 57, 67, 77, 87, 97}
      [] w = 121 -> {1, 11, 21, 31, 41, 51, 61, 71, 81, 91}
      [] w = 122 -> {2, 12, 22, 32, 42, 52, 62, 72, 82, 92}
      [] w = 126 -> {6, 16, 26, 36, 46, 56, 66, 76, 86, 96}
      [] w = 127 -> {7, 17, 27, 37, 47, 57, 67, 77, 87, 97}
      [] w = 131 -> {1, 11, 21, 31, 41, 51, 61, 71, 81, 91}
      [] w = 132 -> {2, 12, 22, 32, 42, 52, 62, 72, 82, 92}
      [] w = 136 -> {6, 16, 26, 36, 46, 56, 66, 76, 86, 96}
      [] w = 137 -> {7, 17, 27, 37, 47, 57, 67, 77, 87, 97}
      [] w = 141 -> {1, 11, 21, 31, 41, 51, 61, 71, 81, 91}
      [] w = 142 -> {2, 12, 22, 32, 42, 52, 62, 72, 82, 92}
      [] w = 146 -> {6, 16, 26, 36, 46, 56, 66, 76, 86}
      [] w = 147 -> {7, 17, 27, 37, 47, 57, 67, 77}
      [] w = 151 -> {1, 11, 21, 31, 41, 51, 61, 71}
      [] w = 152 -> {2, 12, 22, 32, 42, 52, 62, 72}
      [] w = 156 -> {6, 16, 26, 36, 46, 56}
      [] w = 157 -> {7, 17, 27, 37, 47, 57}
      [] w = 161 -> {1, 11, 21, 31, 41, 51}
      [] w = 162 -> {2, 12, 22, 32, 42}
      [] w = 165 -> {5, 15, 25, 35}
      [] w = 166 -> {6, 16, 26, 36}
      [] w = 167 -> {7, 17, 27, 37}
      [] w = 170 -> {0, 10, 20, 30}
      [] w = 171 -> {1, 11, 21}
      [] w = 172 -> {2, 12, 22}
      [] w = 175 -> {5, 15}
      [] w = 176 -> {6, 16}
      [] w = 177 -> {7}
      [] w = 180 -> {0}
      [] w = 181 -> {1}
      [] w = 182 -> {2}
      [] w = 184 -> {4, 14, 24, 34, 44, 54, 64, 74, 84, 94}
      [] w = 189 -> {9, 19, 29, 39, 49, 59, 69, 79, 89, 99}
      [] w = 192 -> {2, 12, 22, 32, 42, 52, 62, 72, 82, 92}
      [] w = 194 -> {4, 14, 24, 34, 44, 54, 64, 74, 84, 94}
      [] w = 197 -> {7, 17, 27, 37, 47, 57, 67, 77, 87, 97}
      [] w = 199 -> {9, 19, 29, 39, 49, 59, 69, 79, 89, 99}
      [] w = 202 -> {2, 12, 22, 32, 42, 52, 62, 72, 82, 92}
      [] w = 204 -> {4, 14, 24, 34, 44, 54, 64, 74, 84, 94}
      [] w = 207 -> {7, 17, 27, 37, 47, 57, 67, 77, 87, 97}
      [] w = 209 -> {9, 19, 29, 39, 49, 59, 69, 79, 89, 99}
      [] w = 212 -> {2, 12, 22, 32, 42, 52, 62, 72, 82, 92}
      [] w = 214 -> {4, 14, 24, 34, 44, 54, 64, 74, 84, 94}
      [] w = 217 -> {7, 17, 27, 37, 47, 57, 67, 77, 87, 97}
      [] w = 219 -> {9, 19, 29, 39, 49, 59, 69, 79, 89, 99}
      [] w = 222 -> {2, 12, 22, 32, 42, 52, 62, 72, 82, 92}
      [] w = 224 -> {4, 14, 24, 34, 44, 54, 64, 74, 84, 94}
      [] w = 227 -> {7, 17, 27, 37, 47, 57, 67, 77, 87, 97}
      [] w = 229 -> {9, 19, 29, 39, 49, 59, 69, 79, 89, 99}
      [] w = 232 -> {2, 12, 22, 32, 42, 52, 62, 72, 82, 92}
      [] w = 234 -> {4, 14, 24, 34, 44, 54, 64, 74, 84, 94}
      [] w = 237 -> {7, 17, 27, 37, 47, 57, 67, 77, 87, 97}
      [] w = 239 -> {9, 19, 29, 39, 49, 59, 69, 79, 89, 99}
      [] w = 242 -> {2, 12, 22, 32, 42, 52, 62, 72, 82, 92}
      [] w = 244 -> {4, 14, 24, 34, 44, 54, 64, 74, 84, 94}
      [] w = 247 -> {7, 17, 27, 37, 47, 57, 67, 77, 87, 97}
      [] w = 249 -> {9, 19, 29, 39, 49, 59, 69, 79, 89, 99}
      [] OTHER -> {}

\* int(w * 0.7 + o * 0.3) for integers w and o.
Blend7030(w, o) ==
    IF o \in RoundsShort(w) THEN (7 * w + 3 * o) \div 10 - 1 ELSE (7 * w + 3 * o) \div 10

\* reference_weights are in twentieths.  The result carries the tier that
\* produced it: "cross", or the tier of the own-history argument.
_combine_estimates(reference_estimates, reference_weights, own_history_estimate, own_tier) ==
    LET idx == 1..Len(reference_estimates)
        A(k) == SumOver([i \in idx |-> reference_estimates[i][k] * reference_weights[i]], idx)
        final(a, o, W) ==
            IF own_history_estimate # <<0, 0>>
            THEN IF a % W = 0
                 THEN Blend7030(a \div W, o)
                 ELSE (7 * a + 3 * o * W) \div (10 * W)
            ELSE a \div W
        combined(W) ==
            IF reference_estimates = <<>> \/ W = 0
            THEN [est |-> own_history_estimate, tier |-> own_tier]
            ELSE [est |-> <<final(A(1), own_history_estimate[1], W),
                            final(A(2), own_history_estimate[2], W)>>, tier |-> "cross"]
    IN  combined(SumOver(reference_weights, idx))

\* ----------------------------------------------------------- sanity clamp
\* 4 * quantile(k / 4) of the ascending sequence xs, pandas' linear
\* interpolation: position k * (n - 1) / 4.
Quantile4(xs, k) ==
    LET pos == k * (Len(xs) - 1)
        lo == pos \div 4 + 1
        fr == pos % 4
    IN  IF fr = 0 THEN 4 * xs[lo] ELSE 4 * xs[lo] + fr * (xs[lo + 1] - xs[lo])

\* 8 * (lower, upper) of the IQR fence of column col over hist.
Fence8(hist, col) ==
    LET fence(q1, q3) == <<Max2(0, 2 * q1 - 3 * (q3 - q1)), 2 * q3 + 3 * (q3 - q1)>>
        bounds(xs) == fence(Quantile4(xs, 1), Quantile4(xs, 3))
    IN  bounds(SortedCol(hist, col))

\* int(max(lower, min(estimated, upper)))
Clamp(x, fence8) == Max2(fence8[1], Min2(8 * x, fence8[2])) \div 8

\* int(total * 0.55)
Share55(total) == (55 * total) \div 100

NonNegative_Negated(x) == 0 - x

\* max(0, estimated)
NonNegative(x) == Max2(0, x)

_apply_sanity_checks(flow, estimated_inside, estimated_outside, camera_id, hour, weekday) ==
    LET balance(ci, co) ==
            IF ci < co
            THEN <<NonNegative(Share55(ci + co)), NonNegative((ci + co) - Share55(ci + co))>>
            ELSE <<NonNegative(ci), NonNegative(co)>>
        clamp(hist) ==
            IF Cardinality(hist) >= 3
            THEN balance(Clamp(estimated_inside, Fence8(hist, "total_inside")),
                         Clamp(estimated_outside, Fence8(hist, "total_outside")))
            ELSE balance(estimated_inside, estimated_outside)
    IN  clamp(HistData(flow, camera_id, hour, weekday))

\* -------------------------------------------------------------- estimator
\* The flow_df rows of (camera, target date, hour) with valid = 1.
TargetRows(flow, camera_id, day, hour) ==
    {r \in flow : /\ r.camera_id = camera_id
                  /\ DateOf(r.created_at) = day
                  /\ HourOf(r.created_at) = hour
                  /\ r.valid = 1}

\* The ids of S, ascending (the order of cameras_df and of the dict keys).
RECURSIVE Ascending(_)
Ascending(S) ==
    IF S = {} THEN <<>>
    ELSE LET x == CHOOSE y \in S : \A z \in S : y <= z IN <<x>> \o Ascending(S \ {x})

RECURSIVE Flatten(_, _)
Flatten(f, keys) == IF keys = <<>> THEN <<>> ELSE f[Head(keys)] \o Flatten(f, Tail(keys))

\* One row of the DataFrame of estimates.  tier, raw and refs are not columns
\* of the source: they record which source produced the estimate, the value
\* handed to _apply_sanity_checks and the cameras whose target-date values
\* entered reference_estimates.
Record(camera_id, day, hour, est, tier, raw, refs) ==
    [created_at |-> [day |-> day, hour |-> hour], camera_id |-> camera_id,
     total_inside |-> est[1], total_outside |-> est[2], valid |-> 1, estimated |-> 1,
     client |-> login_camera[camera_id].client,
     location |-> login_camera[camera_id].location,
     tier |-> tier, raw |-> raw, refs |-> refs]

\* The working cameras that contribute a reference estimate at the hour, in
\* order: active at the hour, with a target-date record, and a ratio > 0.
References(flow, cams, working, camera_id, hour, day) ==
    SelectSeq(Ascending(working), LAMBDA o :
        LET se == get_camera_active_hours(cams, o, WeekdayOf(day))
        IN  /\ se[1] <= hour /\ hour <= se[2]
            /\ TargetRows(flow, o, day, hour) # {}
            /\ _get_hourly_ratio(flow, camera_id, o, hour, WeekdayOf(day)).num > 0)

\* The reference values multiplied by the ratio instead of divided by it.
ReferenceEstimate_Multiplied(flow, camera_id, o, hour, day) ==
    LET multiply(row, q) ==
            <<(row.total_inside * q.num) \div q.den, (row.total_outside * q.num) \div q.den>>
    IN  multiply(MinId(TargetRows(flow, o, day, hour)),
                 _get_hourly_ratio(flow, camera_id, o, hour, WeekdayOf(day)))

\* (int(other_inside / hist_ratio), int(other_outside / hist_ratio))
ReferenceEstimate(flow, camera_id, o, hour, day) ==
    LET divide(row, q) ==
            <<(row.total_inside * q.den) \div q.num, (row.total_outside * q.den) \div q.num>>
    IN  divide(MinId(TargetRows(flow, o, day, hour)),
               _get_hourly_ratio(flow, camera_id, o, hour, WeekdayOf(day)))

\* The loop body of estimate_missing_data for one failing (camera, hour).
EstimateHour(flow, cams, working, baseline, camera_id, hour, day) ==
    LET own == IF hour \in DOMAIN baseline THEN baseline[hour] ELSE <<0, 0>>
        own_tier == IF hour \in DOMAIN baseline THEN "own" ELSE "none"
        checked(c, refs) ==
            Record(camera_id, day, hour,
                   _apply_sanity_checks(flow, c.est[1], c.est[2], camera_id, hour,
                                        WeekdayOf(day)),
                   c.tier, c.est, refs)
        combined(refs) ==
            checked(_combine_estimates(
                [i \in 1..Len(refs) |-> ReferenceEstimate(flow, camera_id, refs[i], hour, day)],
                [i \in 1..Len(refs) |->
                    _get_ratio_confidence(flow, camera_id, refs[i], hour, WeekdayOf(day))],
                own, own_tier), refs)
    IN  combined(References(flow, cams, working, camera_id, hour, day))

\* One hour of _estimate_all_from_own_history; int(NaN) raises ValueError and
\* _get_default_value is not defined on the class (AttributeError).
OwnHistoryHour(flow, cams, camera_id, hour, day) ==
    LET similar == {r \in flow : /\ r.camera_id = camera_id
                                 /\ WeekdayOf(DateOf(r.created_at)) = WeekdayOf(day)}
        checked(raw, tier) ==
            [error |-> FALSE,
             rec |-> <<Record(camera_id, day, hour,
                              _apply_sanity_checks(flow, raw[1], raw[2], camera_id, hour,
                                                   WeekdayOf(day)),
                              tier, raw, <<>>)>>]
        scaled(src, f, tier) ==
            IF src = {} \/ IsNaN(f) THEN [error |-> TRUE, rec |-> <<>>]
            ELSE checked(<<IntMeanTimesFactor(SumCol(src, "total_inside"), Cardinality(src), f),
                           IntMeanTimesFactor(SumCol(src, "total_outside"), Cardinality(src), f)>>,
                         tier)
        estimate(hist, f) ==
            IF Cardinality(hist) >= 2 THEN scaled(hist, f, "own")
            ELSE scaled(similar, f, "weekday_avg")
    IN  estimate(HistData(flow, camera_id, hour, WeekdayOf(day)),
                 _get_weekday_patterns(flow, cams, camera_id)[WeekdayOf(day)])

_estimate_all_from_own_history(flow, cams, failing, day) ==
    LET gather(all) ==
            IF \E c \in DOMAIN all : \E i \in DOMAIN all[c] : all[c][i].error
            THEN [error |-> TRUE, records |-> <<>>]
            ELSE [error |-> FALSE,
                  records |-> Flatten([c \in DOMAIN all |->
                                          Flatten([i \in DOMAIN all[c] |-> all[c][i].rec],
                                                  [i \in DOMAIN all[c] |-> i])],
                                      Ascending(DOMAIN all))]
    IN  gather([c \in DOMAIN failing |->
                  [i \in 1..Len(failing[c]) |->
                      OwnHistoryHour(flow, cams, c, failing[c][i], day)]])

\* The estimator with every other camera of the pair taken as a reference.
estimate_missing_data_AnyReference(flow, cams, failing, day) ==
    LET missing(c) == SelectSeq(failing[c], LAMBDA h :
                          h \in SeqToSet(ActiveHours(cams, c, WeekdayOf(day))))
        hours(c, ms, base) ==
            Flatten([i \in 1..Len(ms) |->
                        <<EstimateHour(flow, cams, cams \ {c}, base.baseline, c, ms[i], day)>>],
                    [i \in 1..Len(ms) |-> i])
        gather(base) ==
            IF \E c \in DOMAIN base : base[c].error THEN [error |-> TRUE, records |-> <<>>]
            ELSE [error |-> FALSE,
                  records |-> Flatten([c \in DOMAIN base |-> hours(c, missing(c), base[c])],
                                      Ascending(DOMAIN base))]
    IN  gather([c \in {x \in DOMAIN failing : missing(x) # <<>>} |->
                   _get_own_history_baseline(flow, cams, c, missing(c), day)])

estimate_missing_data(flow, cams, failing, day) ==
    LET missing(c) == SelectSeq(failing[c], LAMBDA h :
                          h \in SeqToSet(ActiveHours(cams, c, WeekdayOf(day))))
        hours(c, ms, base) ==
            Flatten([i \in 1..Len(ms) |->
                        <<EstimateHour(flow, cams, cams \ DOMAIN failing, base.baseline, c,
                                       ms[i], day)>>],
                    [i \in 1..Len(ms) |-> i])
        gather(base) ==
            IF \E c \in DOMAIN base : base[c].error THEN [error |-> TRUE, records |-> <<>>]
            ELSE [error |-> FALSE,
                  records |-> Flatten([c \in DOMAIN base |-> hours(c, missing(c), base[c])],
                                      Ascending(DOMAIN base))]
    IN  IF cams \ DOMAIN failing = {}
        THEN _estimate_all_from_own_history(flow, cams, failing, day)
        ELSE gather([c \in {x \in DOMAIN failing : missing(x) # <<>>} |->
                        _get_own_history_baseline(flow, cams, c, missing(c), day)])

\* ----------------------------------------------------------------- writer
MaxRowId(st) == IF st = {} THEN 0 ELSE (CHOOSE r \in st : \A q \in st : q.id <= r.id).id

\* The loop body without the SELECT: every record is inserted.
UpsertRow_AlwaysInsert(w, rec) ==
    [store |-> w.store \cup
                  {[id |-> MaxRowId(w.store) + 1,
                    created_at |-> convert_timestamp_for_sqlite(rec.created_at),
                    camera_id |-> rec.camera_id, total_inside |-> rec.total_inside,
                    total_outside |-> rec.total_outside, valid |-> 1]},
     inserted |-> w.inserted + 1, updated |-> w.updated]

\* The loop body leaving a confirmed row as it is, uncounted.
UpsertRow_SkipConfirmed(w, rec) ==
    LET found == {r \in w.store : /\ r.camera_id = rec.camera_id
                                  /\ r.created_at = convert_timestamp_for_sqlite(rec.created_at)}
    IN  IF found # {} /\ MinId(found).valid = 1 THEN w ELSE UpsertRow_AlwaysInsert(w, rec)

\* The loop body with the UPDATE keyed by camera_id instead of the row id.
UpsertRow_UpdateCamera(w, rec) ==
    LET found == {r \in w.store : /\ r.camera_id = rec.camera_id
                                  /\ r.created_at = convert_timestamp_for_sqlite(rec.created_at)}
    IN  IF found = {} THEN UpsertRow_AlwaysInsert(w, rec)
        ELSE [store |-> {IF r.camera_id = rec.camera_id
                         THEN [r EXCEPT !.total_inside = rec.total_inside,
                                        !.total_outside = rec.total_outside, !.valid = 1]
                         ELSE r : r \in w.store},
              inserted |-> w.inserted, updated |-> w.updated + 1]

\* One iteration of the loop of insert_estimated_data: SELECT by
\* (camera_id, created_at), then INSERT, or UPDATE ... WHERE id = existing id.
\* The INSERT and the UPDATE name the columns total_inside, total_outside and
\* valid only: peopleflowtotals has no column for 'estimated'.
UpsertRow(w, rec) ==
    LET created_at_sql == convert_timestamp_for_sqlite(rec.created_at)
        found == {r \in w.store : r.camera_id = rec.camera_id /\ r.created_at = created_at_sql}
        existing == MinId(found)
    IN  IF found = {}
        THEN [store |-> w.store \cup
                          {[id |-> MaxRowId(w.store) + 1, created_at |-> created_at_sql,
                            camera_id |-> rec.camera_id, total_inside |-> rec.total_inside,
                            total_outside |-> rec.total_outside, valid |-> 1]},
              inserted |-> w.inserted + 1, updated |-> w.updated]
        ELSE [store |-> (w.store \ {existing}) \cup
                          {[existing EXCEPT !.total_inside = rec.total_inside,
                                            !.total_outside = rec.total_outside,
                                            !.valid = 1]},
              inserted |-> w.inserted, updated |-> w.updated + 1]

RECURSIVE UpsertAll(_, _)
UpsertAll(w, batch) ==
    IF batch = <<>> THEN w ELSE UpsertAll(UpsertRow(w, Head(batch)), Tail(batch))

\* The batch is processed in camera_id order, which is the order
\* estimate_missing_data produced it in.
insert_estimated_data(st, estimated_df) ==
    UpsertAll([store |-> st, inserted |-> 0, updated |-> 0], estimated_df)

\* The writer when the storage layer raises at the records whose positions are
\* in failed: the except clause of the loop skips the record without counting
\* it (continue) and the loop goes on; the commit follows the loop.
InsertRaisingAt_AbortBatch(st, estimated_df, failed) ==
    IF failed = {} THEN insert_estimated_data(st, estimated_df)
    ELSE [store |-> st, inserted |-> 0, updated |-> 0]

RECURSIVE UpsertFrom(_, _, _, _)
UpsertFrom(w, batch, i, failed) ==
    IF i > Len(batch) THEN w
    ELSE UpsertFrom(IF i \in failed THEN w ELSE UpsertRow(w, batch[i]), batch, i + 1, failed)

InsertRaisingAt(st, estimated_df, failed) ==
    UpsertFrom([store |-> st, inserted |-> 0, updated |-> 0], estimated_df, 1, failed)

create_imputation_log(pair, day, estimated_df, inserted, updated) ==
    [client |-> pair[1], location |-> pair[2], target_date |-> day,
     cameras_affected |-> Cardinality({estimated_df[i].camera_id : i \in 1..Len(estimated_df)}),
     hours_estimated |-> Len(estimated_df),
     records_inserted |-> inserted, records_updated |-> updated]

\* ----------------------------------------------------------- run results
Result_HoursAsCameras(pair, success, loaded, failing, hours, inserted, updated) ==
    [client |-> pair[1], location |-> pair[2], success |-> success,
     cameras_loaded |-> loaded, failing_cameras |-> failing, hours_estimated |-> failing,
     records_inserted |-> inserted, records_updated |-> updated]

Result(pair, success, loaded, failing, hours, inserted, updated) ==
    [client |-> pair[1], location |-> pair[2], success |-> success,
     cameras_loaded |-> loaded, failing_cameras |-> failing, hours_estimated |-> hours,
     records_inserted |-> inserted, records_updated |-> updated]

\* The entry run_imputation appends when process_client_location raised.
ErrorResult(pair, e) ==
    [client |-> pair[1], location |-> pair[2], success |-> FALSE, error |-> e]

\* SELECT DISTINCT client, location FROM login_camera ORDER BY client, location
AllPairs == <<PairB, PairA>>

get_client_location_list(targets) == IF targets # <<>> THEN targets ELSE AllPairs

CurrentPair == client_locations[pair_idx]

\* process_client_location returned (or raised, and run_imputation appended
\* the error entry): on to the next pair, or to the final summary.
FinishPair_StopOnError(result) ==
    /\ all_results' = Append(all_results, result)
    /\ IF pair_idx < Len(client_locations) /\ "error" \notin DOMAIN result
       THEN pair_idx' = pair_idx + 1 /\ pc' = "load"
       ELSE pair_idx' = pair_idx /\ pc' = "summary"

FinishPair(result) ==
    /\ all_results' = Append(all_results, result)
    /\ IF pair_idx < Len(client_locations)
       THEN pair_idx' = pair_idx + 1 /\ pc' = "load"
       ELSE pair_idx' = pair_idx /\ pc' = "summary"

\* ---------------------------------------------------------- initial stores
Weeks == 0..(HistWeeks - 1)

Proto(day, hour, ins, outs, valid) ==
    [day |-> day, hour |-> hour, ins |-> ins, outs |-> outs, valid |-> valid]

\* Records of the weeks before the target day, as the ingestion pipeline and
\* the daily compression job left them (valid = 1), by traffic profile.
ProfileRows(p) ==
    CASE p = "none"    -> {}
      [] p = "flat"    -> {Proto(MondayOf(w), 10, 10, 8, 1) : w \in Weeks}
                            \cup {Proto(0, 10, 500, 400, 1)}
      [] p = "steep"   -> {Proto(MondayOf(w), 10, 18 + w, 1, 1) : w \in Weeks}
      [] p = "zeros"   -> {Proto(MondayOf(w), 10, 0, 0, 1) : w \in Weeks}
      [] p = "weekend" -> {Proto(MondayOf(w), 10, 10, 8, 1) : w \in Weeks}
                            \cup {Proto(SundayBefore, 10, 30, 24, 1)}
      [] p = "busy"    -> {Proto(MondayOf(w), 10, 55, 45, 1) : w \in Weeks}
      [] p = "ref"     -> {Proto(MondayOf(w), 10, 20 + w, 18 + w, 1) : w \in Weeks}
      [] p = "exits"   -> {Proto(MondayOf(w), 11, 0, 3, 1) : w \in Weeks}
      [] p = "quiet"   -> {Proto(MondayOf(w), 10, IF w = 0 THEN 2 ELSE 0, 0, 1) : w \in Weeks}

HistoryProfiles(c) ==
    CASE c = 1 -> {"none", "flat", "steep", "zeros", "weekend", "busy", "quiet"}
      [] c = 2 -> {"none", "ref"}
      [] c = 3 -> {"none", "flat", "exits"}

\* What the store may hold at (camera, target day, hour): nothing, or
\* <<inside, outside, valid>>.
Absent == <<>>
TargetSlots == {<<1, 10>>, <<1, 11>>, <<2, 10>>, <<3, 10>>, <<3, 11>>}
TargetOptions(slot) ==
    CASE slot = <<1, 10>> -> {Absent, <<3, 2, 1>>, <<10, 9, 1>>, <<12, 9, 1>>, <<30, 24, 0>>}
      [] slot = <<1, 11>> -> {Absent, <<12, 9, 1>>}
      [] slot = <<2, 10>> -> {Absent, <<37, 1, 1>>, <<30, 24, 1>>, <<96, 80, 1>>}
      [] slot = <<3, 10>> -> {Absent, <<3, 2, 1>>, <<12, 9, 1>>}
      [] slot = <<3, 11>> -> {Absent, <<12, 9, 1>>, <<0, 3, 1>>}

\* One row per (camera, timestamp); the rowids follow the timestamps.
StoreRow(c, pr) ==
    [id |-> Timestamp(pr.day, pr.hour) * 4 + c, created_at |-> Timestamp(pr.day, pr.hour),
     camera_id |-> c, total_inside |-> pr.ins, total_outside |-> pr.outs, valid |-> pr.valid]

BuildStore(hist, tgt) ==
    UNION {{StoreRow(c, pr) : pr \in ProfileRows(hist[c])} : c \in Cameras}
      \cup {StoreRow(s[1], Proto(TargetDay, s[2], tgt[s][1], tgt[s][2], tgt[s][3])) :
               s \in {x \in TargetSlots : tgt[x] # Absent}}

TargetLists == {<<PairA>>, <<PairB>>, <<PairC, PairB, PairA>>}

ListedCameras(list) == UNION {CamerasOf(list[i]) : i \in 1..Len(list)}

\* The stores tried when several pairs are listed: fewer per camera.
SharedProfiles(c) ==
    CASE c = 1 -> {"flat", "steep"}
      [] c = 2 -> {"none", "ref"}
      [] c = 3 -> {"none", "flat"}

SharedOptions(slot) ==
    CASE slot = <<1, 10>> -> {Absent, <<12, 9, 1>>}
      [] slot = <<1, 11>> -> {Absent, <<12, 9, 1>>}
      [] slot = <<2, 10>> -> {Absent, <<96, 80, 1>>}
      [] slot = <<3, 10>> -> {Absent, <<12, 9, 1>>}
      [] slot = <<3, 11>> -> {<<12, 9, 1>>}

\* The data of a camera that no listed pair owns is never read: it is left out.
HistoryOf(c, list) ==
    IF c \notin ListedCameras(list) THEN {"none"}
    ELSE IF Len(list) > 1 THEN SharedProfiles(c) ELSE HistoryProfiles(c)

TargetOf(slot, list) ==
    IF slot[1] \notin ListedCameras(list) THEN {Absent}
    ELSE IF Len(list) > 1 THEN SharedOptions(slot) ELSE TargetOptions(slot)

Init ==
    /\ target_client_locations \in TargetLists
    /\ \E h1 \in HistoryOf(1, target_client_locations),
          h2 \in HistoryOf(2, target_client_locations),
          h3 \in HistoryOf(3, target_client_locations),
          t1 \in TargetOf(<<1, 10>>, target_client_locations),
          t2 \in TargetOf(<<1, 11>>, target_client_locations),
          t3 \in TargetOf(<<2, 10>>, target_client_locations),
          t4 \in TargetOf(<<3, 10>>, target_client_locations),
          t5 \in TargetOf(<<3, 11>>, target_client_locations) :
          store = BuildStore(<<h1, h2, h3>>,
                             (<<1, 10>> :> t1) @@ (<<1, 11>> :> t2) @@ (<<2, 10>> :> t3)
                               @@ (<<3, 10>> :> t4) @@ (<<3, 11>> :> t5))
    /\ data_imputation_log = <<>>
    /\ pc = "idle"
    /\ run = 0
    /\ pair_idx = 1
    /\ cameras_df = {}
    /\ flow_df = {}
    /\ target_date = Null
    /\ failing_cameras = <<>>
    /\ estimated_data = <<>>
    /\ client_locations = <<>>
    /\ all_results = <<>>
    /\ faults = 0
    /\ store_after = [r \in 0..MaxRuns |-> {}]
    /\ call_args = <<>>
    /\ call_result = <<>>
    /\ workers = <<>>
    /\ flow_df_valid = {}
    /\ data_cache = <<>>

\* ---------------------------------------------------------------- actions
\* run_imputation up to the loop over the pairs.
RunImputation ==
    /\ pc = "idle"
    /\ run < MaxRuns
    /\ run' = run + 1
    /\ client_locations' = get_client_location_list(target_client_locations)
    /\ all_results' = <<>>
    /\ pair_idx' = 1
    /\ pc' = IF get_client_location_list(target_client_locations) = <<>> THEN "idle" ELSE "load"
    /\ store_after' = IF run = 0 THEN [store_after EXCEPT ![0] = store] ELSE store_after
    /\ UNCHANGED <<store, data_imputation_log, target_client_locations, cameras_df, flow_df,
                   target_date, failing_cameras, estimated_data, faults>>
    /\ UNCHANGED <<call_args, call_result, workers, flow_df_valid, data_cache>>

\* process_client_location up to get_last_valid_day.  connect() may raise
\* when the storage layer is unreachable.
Load ==
    /\ pc = "load"
    /\ \E reachable \in BOOLEAN :
        /\ reachable \/ faults < MaxFaults
        /\ LET l == load_data_for_client_location(store, CurrentPair, DaysBack)
           IN  IF ~reachable
               THEN /\ faults' = faults + 1
                    /\ FinishPair(ErrorResult(CurrentPair, "unable to open database file"))
                    /\ UNCHANGED <<cameras_df, flow_df, target_date>>
               ELSE /\ faults' = faults
                    /\ cameras_df' = l.cameras_df
                    /\ flow_df' = IF l.cameras_df = {} THEN flow_df ELSE l.flow_df
                    /\ IF l.ok
                       THEN /\ target_date' = get_last_valid_day(l.flow_df)
                            /\ pc' = "detect"
                            /\ UNCHANGED <<all_results, pair_idx>>
                       ELSE /\ target_date' = target_date
                            /\ FinishPair(Result(CurrentPair, FALSE, 0, 0, 0, 0, 0))
    /\ UNCHANGED <<store, data_imputation_log, target_client_locations, run, client_locations,
                   failing_cameras, estimated_data, store_after>>
    /\ UNCHANGED <<call_args, call_result, workers, flow_df_valid, data_cache>>

Detect ==
    /\ pc = "detect"
    /\ LET f == identify_failing_cameras(flow_df, cameras_df, target_date)
       IN  /\ failing_cameras' = f
           /\ IF DOMAIN f = {}
              THEN FinishPair(Result(CurrentPair, TRUE, Cardinality(cameras_df), 0, 0, 0, 0))
              ELSE pc' = "estimate" /\ UNCHANGED <<all_results, pair_idx>>
    /\ UNCHANGED <<store, data_imputation_log, target_client_locations, run, client_locations,
                   cameras_df, flow_df, target_date, estimated_data, faults, store_after>>
    /\ UNCHANGED <<call_args, call_result, workers, flow_df_valid, data_cache>>

Estimate ==
    /\ pc = "estimate"
    /\ LET e == estimate_missing_data(flow_df, cameras_df, failing_cameras, target_date)
       IN  IF e.error
           THEN /\ estimated_data' = estimated_data
                /\ FinishPair(ErrorResult(CurrentPair, "estimate_missing_data raised"))
           ELSE /\ estimated_data' = e.records
                /\ IF e.records = <<>>
                   THEN FinishPair(Result(CurrentPair, TRUE, Cardinality(cameras_df),
                                          Cardinality(DOMAIN failing_cameras), 0, 0, 0))
                   ELSE pc' = "insert" /\ UNCHANGED <<all_results, pair_idx>>
    /\ UNCHANGED <<store, data_imputation_log, target_client_locations, run, client_locations,
                   cameras_df, flow_df, target_date, failing_cameras, faults, store_after>>
    /\ UNCHANGED <<call_args, call_result, workers, flow_df_valid, data_cache>>

\* insert_estimated_data, create_imputation_log and the return of the result;
\* failed holds the positions of the batch at which the storage layer raises.
WriteBatch(failed) ==
    /\ pc = "insert"
    /\ LET w == InsertRaisingAt(store, estimated_data, failed)
       IN  /\ store' = w.store
           /\ data_imputation_log' =
                 IF w.inserted > 0 \/ w.updated > 0
                 THEN Append(data_imputation_log,
                             create_imputation_log(CurrentPair, target_date, estimated_data,
                                                   w.inserted, w.updated))
                 ELSE data_imputation_log
           /\ FinishPair(Result(CurrentPair, TRUE, Cardinality(cameras_df),
                                Cardinality(DOMAIN failing_cameras), Len(estimated_data),
                                w.inserted, w.updated))
    /\ UNCHANGED <<target_client_locations, run, client_locations, cameras_df, flow_df,
                   target_date, failing_cameras, estimated_data, store_after>>
    /\ UNCHANGED <<workers, flow_df_valid, data_cache>>

Insert ==
    /\ WriteBatch({})
    /\ UNCHANGED <<faults, call_args, call_result>>

\* The same step when the storage layer raises inside the loop: call_args
\* records the positions that raised, call_result the pair
\* insert_estimated_data returned.
RaisingInsert ==
    \E failed \in SUBSET (1..Len(estimated_data)) :
        /\ failed # {}
        /\ faults + Cardinality(failed) <= MaxFaults
        /\ WriteBatch(failed)
        /\ faults' = faults + Cardinality(failed)
        /\ call_args' = <<failed>>
        /\ call_result' = LET w == InsertRaisingAt(store, estimated_data, failed)
                          IN  <<w.inserted, w.updated>>

\* A total of the final summary: sum(r.get(field, 0) for r in all_results).
RECURSIVE SummaryTotal(_, _)
SummaryTotal(results, field) ==
    IF results = <<>> THEN 0
    ELSE (IF field \in DOMAIN Head(results) THEN Head(results)[field] ELSE 0)
         + SummaryTotal(Tail(results), field)

\* The final summary of run_imputation; the invocation returns.
Summary ==
    /\ pc = "summary"
    /\ pc' = "idle"
    /\ store_after' = [store_after EXCEPT ![run] = store]
    /\ UNCHANGED <<store, data_imputation_log, target_client_locations, run, pair_idx,
                   cameras_df, flow_df, target_date, failing_cameras, estimated_data,
                   client_locations, all_results, faults>>
    /\ UNCHANGED <<call_args, call_result, workers, flow_df_valid, data_cache>>

Next == RunImputation \/ Load \/ Detect \/ Estimate \/ Insert \/ Summary

Spec == Init /\ [][Next]_vars

\* The pipeline with a storage layer that may raise at single records.
RaiseNext == RunImputation \/ Load \/ Detect \/ Estimate \/ Insert \/ RaisingInsert \/ Summary

RaiseSpec == Init /\ [][RaiseNext]_vars

\* process_client_location as one function of the store: the result it
\* returns, or the entry run_imputation records when it raises.
process_client_location(st, pair) ==
    LET written(l, f, e, w) ==
            Result(pair, TRUE, Cardinality(l.cameras_df), Cardinality(DOMAIN f),
                   Len(e.records), w.inserted, w.updated)
        estimated(l, f, e) ==
            IF e.error THEN ErrorResult(pair, "estimate_missing_data raised")
            ELSE IF e.records = <<>>
                 THEN Result(pair, TRUE, Cardinality(l.cameras_df), Cardinality(DOMAIN f),
                             0, 0, 0)
                 ELSE written(l, f, e, insert_estimated_data(st, e.records))
        detected(l, day, f) ==
            IF DOMAIN f = {} THEN Result(pair, TRUE, Cardinality(l.cameras_df), 0, 0, 0, 0)
            ELSE estimated(l, f, estimate_missing_data(l.flow_df, l.cameras_df, f, day))
        dated(l, day) ==
            detected(l, day, identify_failing_cameras(l.flow_df, l.cameras_df, day))
        loaded(l) ==
            IF ~l.ok THEN Result(pair, FALSE, 0, 0, 0, 0, 0)
            ELSE dated(l, get_last_valid_day(l.flow_df))
    IN  loaded(load_data_for_client_location(st, pair, DaysBack))


\* ----------------------------------------------------------- direct calls
\* A method of the engine called directly on arguments drawn from a bounded
\* set, the engine otherwise idle on an empty store.
ScheduleHours == {Null, 0 - 3, 0, 9, 18, 23, 30}

ScheduleCalls ==
    [method : {"get_camera_active_hours"}, known : BOOLEAN, weekday : 0..6,
     entry : ScheduleHours \X ScheduleHours]

CallInit ==
    /\ call_args \in ScheduleCalls
    /\ call_result = <<>>
    /\ store = {}
    /\ data_imputation_log = <<>>
    /\ target_client_locations = <<PairA>>
    /\ pc = "idle"
    /\ run = 0
    /\ pair_idx = 1
    /\ cameras_df = {}
    /\ flow_df = {}
    /\ target_date = Null
    /\ failing_cameras = <<>>
    /\ estimated_data = <<>>
    /\ client_locations = <<>>
    /\ all_results = <<>>
    /\ faults = 0
    /\ store_after = [r \in 0..MaxRuns |-> {}]
    /\ workers = <<>>
    /\ flow_df_valid = {}
    /\ data_cache = <<>>

CallGetCameraActiveHours ==
    /\ call_result = <<>>
    /\ call_args.method = "get_camera_active_hours"
    /\ call_result' = <<ResolveSchedule(call_args.known, call_args.weekday, call_args.entry)>>
    /\ UNCHANGED <<store, data_imputation_log, target_client_locations, pc, run, pair_idx,
                   cameras_df, flow_df, target_date, failing_cameras, estimated_data,
                   client_locations, all_results, faults, store_after, call_args, workers,
                   flow_df_valid, data_cache>>

CallNext == CallGetCameraActiveHours

CallSpec == CallInit /\ [][CallNext]_vars

\* ------------------------------------------------------ concurrent engines
\* Two engine instances, each with its own connection to the same database
\* file and each processing one pair.  A statement is one step.  sqlite3
\* opens a transaction before the first INSERT or UPDATE of a connection and
\* keeps it until commit(): what it wrote is visible to the other connection
\* only from the commit on, and the other connection's first write waits for
\* it.  SELECT statements outside a transaction read the committed rows.
WorkerStart(pair) ==
    [pair |-> pair, pc |-> "load", cameras_df |-> {}, flow_df |-> {}, target_date |-> Null,
     failing_cameras |-> <<>>, estimated_data |-> <<>>, k |-> 1, existing |-> Null,
     in_transaction |-> FALSE, view |-> {}, inserted |-> 0, updated |-> 0]

WorkerPairs == {<<PairA, PairB>>, <<PairA, PairA>>, <<PairB, PairB>>}

\* cursor.execute("SELECT id, valid ... WHERE camera_id = ? AND created_at = ?")
\* and fetchone(): the id of the first row found, or Null.
SelectExisting(st, rec) ==
    LET found == {r \in st : /\ r.camera_id = rec.camera_id
                             /\ r.created_at = convert_timestamp_for_sqlite(rec.created_at)}
    IN  IF found = {} THEN Null ELSE MinId(found).id

\* The INSERT when fetchone() returned None, else UPDATE ... WHERE id = ?.
WriteRow(w, rec, existing_id) ==
    IF existing_id = Null
    THEN [store |-> w.store \cup
                      {[id |-> MaxRowId(w.store) + 1,
                        created_at |-> convert_timestamp_for_sqlite(rec.created_at),
                        camera_id |-> rec.camera_id, total_inside |-> rec.total_inside,
                        total_outside |-> rec.total_outside, valid |-> 1]},
          inserted |-> w.inserted + 1, updated |-> w.updated]
    ELSE [store |-> {IF r.id = existing_id
                     THEN [r EXCEPT !.total_inside = rec.total_inside,
                                    !.total_outside = rec.total_outside, !.valid = 1]
                     ELSE r : r \in w.store},
          inserted |-> w.inserted, updated |-> w.updated + 1]

\* The rows a statement of worker e sees.
WorkerView(e) == IF workers[e].in_transaction THEN workers[e].view ELSE store

\* No other connection holds the write lock.
LockFree(e) == \A o \in DOMAIN workers : o # e => ~workers[o].in_transaction

KeepEngine ==
    UNCHANGED <<data_imputation_log, target_client_locations, pc, run, pair_idx, cameras_df,
                flow_df, target_date, failing_cameras, estimated_data, client_locations,
                all_results, faults, store_after, call_args, call_result, flow_df_valid,
                data_cache>>

WorkerInit ==
    /\ \E ps \in WorkerPairs :
          /\ workers = [e \in 1..2 |-> WorkerStart(ps[e])]
          /\ \E h1 \in HistoryOf(1, ps), h2 \in HistoryOf(2, ps), h3 \in HistoryOf(3, ps),
                t1 \in TargetOf(<<1, 10>>, ps), t2 \in TargetOf(<<1, 11>>, ps),
                t3 \in TargetOf(<<2, 10>>, ps), t4 \in TargetOf(<<3, 10>>, ps),
                t5 \in TargetOf(<<3, 11>>, ps) :
                store = BuildStore(<<h1, h2, h3>>,
                                   (<<1, 10>> :> t1) @@ (<<1, 11>> :> t2) @@ (<<2, 10>> :> t3)
                                     @@ (<<3, 10>> :> t4) @@ (<<3, 11>> :> t5))
    /\ data_imputation_log = <<>>
    /\ target_client_locations = <<>>
    /\ pc = "idle"
    /\ run = 0
    /\ pair_idx = 1
    /\ cameras_df = {}
    /\ flow_df = {}
    /\ target_date = Null
    /\ failing_cameras = <<>>
    /\ estimated_data = <<>>
    /\ client_locations = <<>>
    /\ all_results = <<>>
    /\ faults = 0
    /\ store_after = [r \in 0..MaxRuns |-> IF r = 0 THEN store ELSE {}]
    /\ call_args = <<>>
    /\ call_result = <<>>
    /\ flow_df_valid = {}
    /\ data_cache = <<>>

\* load_data_for_client_location and get_last_valid_day.
WorkerLoad(e) ==
    /\ workers[e].pc = "load"
    /\ LET l == load_data_for_client_location(store, workers[e].pair, DaysBack)
       IN  workers' = [workers EXCEPT
                ![e].cameras_df = l.cameras_df,
                ![e].flow_df = l.flow_df,
                ![e].target_date = IF l.ok THEN get_last_valid_day(l.flow_df) ELSE Null,
                ![e].pc = IF l.ok THEN "detect" ELSE "done"]
    /\ UNCHANGED store
    /\ KeepEngine

WorkerDetect(e) ==
    /\ workers[e].pc = "detect"
    /\ LET f == identify_failing_cameras(workers[e].flow_df, workers[e].cameras_df,
                                         workers[e].target_date)
       IN  workers' = [workers EXCEPT
                ![e].failing_cameras = f,
                ![e].pc = IF DOMAIN f = {} THEN "done" ELSE "estimate"]
    /\ UNCHANGED store
    /\ KeepEngine

WorkerEstimate(e) ==
    /\ workers[e].pc = "estimate"
    /\ LET r == estimate_missing_data(workers[e].flow_df, workers[e].cameras_df,
                                      workers[e].failing_cameras, workers[e].target_date)
       IN  workers' = [workers EXCEPT
                ![e].estimated_data = IF r.error THEN <<>> ELSE r.records,
                ![e].pc = IF r.error \/ r.records = <<>> THEN "done" ELSE "select"]
    /\ UNCHANGED store
    /\ KeepEngine

\* The existence check of the record the loop of insert_estimated_data is at.
WorkerSelect(e) ==
    /\ workers[e].pc = "select"
    /\ workers' = [workers EXCEPT
            ![e].existing = SelectExisting(WorkerView(e),
                                           workers[e].estimated_data[workers[e].k]),
            ![e].pc = "write"]
    /\ UNCHANGED store
    /\ KeepEngine

\* The INSERT or UPDATE that follows the check; it waits for the write lock.
WorkerWrite(e) ==
    /\ workers[e].pc = "write"
    /\ LockFree(e)
    /\ LET w == WriteRow([store |-> WorkerView(e), inserted |-> workers[e].inserted,
                          updated |-> workers[e].updated],
                         workers[e].estimated_data[workers[e].k], workers[e].existing)
       IN  workers' = [workers EXCEPT
                ![e].view = w.store,
                ![e].in_transaction = TRUE,
                ![e].inserted = w.inserted,
                ![e].updated = w.updated,
                ![e].k = workers[e].k + 1,
                ![e].pc = IF workers[e].k < Len(workers[e].estimated_data)
                          THEN "select" ELSE "commit"]
    /\ UNCHANGED store
    /\ KeepEngine

\* self.conn.commit() at the end of insert_estimated_data.
WorkerCommit(e) ==
    /\ workers[e].pc = "commit"
    /\ store' = workers[e].view
    /\ workers' = [workers EXCEPT ![e].in_transaction = FALSE, ![e].view = {}, ![e].pc = "log"]
    /\ KeepEngine

\* create_imputation_log: one INSERT and its commit.
WorkerLog(e) ==
    /\ workers[e].pc = "log"
    /\ LockFree(e)
    /\ data_imputation_log' =
          Append(data_imputation_log,
                 create_imputation_log(workers[e].pair, workers[e].target_date,
                                       workers[e].estimated_data, workers[e].inserted,
                                       workers[e].updated))
    /\ workers' = [workers EXCEPT ![e].pc = "done"]
    /\ UNCHANGED <<store, target_client_locations, pc, run, pair_idx, cameras_df, flow_df,
                   target_date, failing_cameras, estimated_data, client_locations, all_results,
                   faults, store_after, call_args, call_result, flow_df_valid, data_cache>>

WorkerNext ==
    \E e \in DOMAIN workers :
        \/ WorkerLoad(e)
        \/ WorkerDetect(e)
        \/ WorkerEstimate(e)
        \/ WorkerSelect(e)
        \/ WorkerWrite(e)
        \/ WorkerCommit(e)
        \/ WorkerLog(e)

WorkerSpec == WorkerInit /\ [][WorkerNext]_vars

\* ------------------------------------------------- robot_new.py: the cache
\* One engine of robot_new.py on which load_data_for_client_location is
\* called for one pair after another; call_args lists the pairs so far and
\* call_result the value returned and whether the cache answered.
CachePairs == {PairA, PairB, PairC}

\* f"{client}_{location}_{days_back}"
CacheKey(pair, days_back) == <<pair[1], "_", pair[2], "_", days_back>>

\* SELECT ... WHERE created_at >= cutoff AND camera_id IN (...)
\*   AND (valid = 1 OR valid IS NULL), cutoff = now - max(days_back, 28) days
LoadFlowOrNull(st, cams, days_back) ==
    {r \in st : /\ r.created_at >= Now - Max2(days_back, 28) * 24
                /\ r.camera_id \in cams
                /\ (r.valid = 1 \/ r.valid = Null)}

\* flow_df[valid == 1] if any row has valid = 1, else all of flow_df.
ValidView(flow) ==
    IF \E r \in flow : r.valid = 1 THEN {r \in flow : r.valid = 1} ELSE flow

CacheInit ==
    /\ \E h1 \in SharedProfiles(1), h2 \in SharedProfiles(2), h3 \in SharedProfiles(3),
          t1 \in SharedOptions(<<1, 10>>), t2 \in SharedOptions(<<1, 11>>),
          t3 \in SharedOptions(<<2, 10>>), t4 \in SharedOptions(<<3, 10>>),
          t5 \in SharedOptions(<<3, 11>>) \cup {Absent} :
          store = BuildStore(<<h1, h2, h3>>,
                             (<<1, 10>> :> t1) @@ (<<1, 11>> :> t2) @@ (<<2, 10>> :> t3)
                               @@ (<<3, 10>> :> t4) @@ (<<3, 11>> :> t5))
    /\ data_cache = <<>>
    /\ flow_df_valid = {}
    /\ cameras_df = {}
    /\ flow_df = {}
    /\ call_args = <<>>
    /\ call_result = <<>>
    /\ data_imputation_log = <<>>
    /\ target_client_locations = <<>>
    /\ pc = "idle"
    /\ run = 0
    /\ pair_idx = 1
    /\ target_date = Null
    /\ failing_cameras = <<>>
    /\ estimated_data = <<>>
    /\ client_locations = <<>>
    /\ all_results = <<>>
    /\ faults = 0
    /\ store_after = [r \in 0..MaxRuns |-> {}]
    /\ workers = <<>>

\* robot_new.py load_data_for_client_location(client, location, days_back).
CachedLoad(pair, days_back) ==
    /\ Len(call_args) < MaxLoads
    /\ call_args' = Append(call_args, pair)
    /\ LET cams == CamerasOf(pair)
           flow == LoadFlowOrNull(store, CamerasOf(pair), days_back)
       IN  IF CacheKey(pair, days_back) \in DOMAIN data_cache
           THEN /\ cameras_df' = data_cache[CacheKey(pair, days_back)].cameras_df
                /\ flow_df' = data_cache[CacheKey(pair, days_back)].flow_df
                /\ call_result' = <<TRUE, "cache">>
                /\ UNCHANGED <<flow_df_valid, data_cache>>
           ELSE IF cams = {}
           THEN /\ cameras_df' = cams
                /\ call_result' = <<FALSE, "store">>
                /\ UNCHANGED <<flow_df, flow_df_valid, data_cache>>
           ELSE IF flow = {}
           THEN /\ cameras_df' = cams
                /\ flow_df' = flow
                /\ call_result' = <<FALSE, "store">>
                /\ UNCHANGED <<flow_df_valid, data_cache>>
           ELSE /\ cameras_df' = cams
                /\ flow_df' = flow
                /\ flow_df_valid' = ValidView(flow)
                /\ data_cache' = (CacheKey(pair, days_back) :>
                                     [cameras_df |-> cams, flow_df |-> flow]) @@ data_cache
                /\ call_result' = <<TRUE, "store">>
    /\ UNCHANGED <<store, data_imputation_log, target_client_locations, pc, run, pair_idx,
                   target_date, failing_cameras, estimated_data, client_locations, all_results,
                   faults, store_after, workers>>

CacheNext == \E pair \in CachePairs : CachedLoad(pair, DaysBack)

CacheSpec == CacheInit /\ [][CacheNext]_vars

\* ------------------------------------------------------------------ claims
\* What a store says per key: (camera, timestamp, inside, outside).
KeyValues(st) ==
    {<<r.camera_id, r.created_at, r.total_inside, r.total_outside>> : r \in st}

UniqueKeys(st) ==
    \A r \in st : \A q \in st :
        (r.camera_id = q.camera_id /\ r.created_at = q.created_at) => r = q

\* Two invocations on one listed pair, the storage layer reachable in both.
TwoRunsDone ==
    /\ Len(target_client_locations) = 1
    /\ run >= 2
    /\ faults = 0
    /\ store_after[2] # {}

\* C1: after process_client_location has run twice in succession for the same
\* pair, the store after the second run equals the store after the first run:
\* the same keys, one row per key, the same inside/outside values.
C1_Idempotence ==
    TwoRunsDone =>
        /\ KeyValues(store_after[2]) = KeyValues(store_after[1])
        /\ UniqueKeys(store_after[2])

\* Some invocation updated a row that was already in the store.
C2_Witness ==
    /\ pc = "summary"
    /\ \E i \in 1..Len(all_results) :
          "records_updated" \in DOMAIN all_results[i] /\ all_results[i].records_updated > 0

\* Every row a step finds in the store is still there afterwards, under the
\* same rowid and the same key.
RowsKeptInPlace ==
    \A r \in store : \E q \in store' :
        q.id = r.id /\ q.camera_id = r.camera_id /\ q.created_at = r.created_at

\* C2: the store never holds two rows with the same (camera_id, created_at),
\* whatever batches insert_estimated_data has written; a record whose key is
\* already there, with any validity, is written into the existing row.
C2_UniqueKey ==
    /\ []UniqueKeys(store)
    /\ [][UniqueKeys(store') /\ RowsKeptInPlace]_vars

\* The records of (camera, hour, weekday of the target date) dated before the
\* target date: the history of spec 4.3.
PriorHistory(flow, camera_id, hour, day) ==
    {r \in HistData(flow, camera_id, hour, WeekdayOf(day)) : DateOf(r.created_at) < day}

PriorStatistics(flow, camera_id, hour, day) ==
    LET statistics(h) ==
            [count |-> Cardinality(h), sum |-> SumTotal(h),
             ssd |-> Cardinality(h) * SumSqTotal(h) - SumTotal(h) * SumTotal(h)]
    IN  statistics(PriorHistory(flow, camera_id, hour, day))

\* Criteria a-d of spec 4.3, which apply with at least 3 records and mean > 0.
MeetsCriterion(row, st) ==
    /\ st.count >= 3
    /\ st.sum > 0
    /\ \/ TenTimesLower(row.total_inside + row.total_outside, st)
       \/ BelowFifthOfMean(row.total_inside + row.total_outside, st)
       \/ OutsideThreeSigma(row.total_inside + row.total_outside, st)
       \/ AbnormalBalance(row.total_inside, row.total_outside)

Flagged(camera_id, hour) ==
    camera_id \in DOMAIN failing_cameras /\ hour \in SeqToSet(failing_cameras[camera_id])

\* C3: an active hour of a camera of the pair is in the map returned by
\* identify_failing_cameras exactly when it has no confirmed record on the
\* target date or its record meets one of the criteria a-d against the
\* camera's same-hour same-weekday history.
C3_DetectorSoundComplete ==
    pc = "estimate" =>
        \A c \in cameras_df :
            \A h \in SeqToSet(ActiveHours(cameras_df, c, WeekdayOf(target_date))) :
                Flagged(c, h) <=>
                    \/ TargetRows(flow_df, c, target_date, h) = {}
                    \/ MeetsCriterion(MinId(TargetRows(flow_df, c, target_date, h)),
                                      PriorStatistics(flow_df, c, h, target_date))

\* The history the sanity clamp of an estimated record reads.
ClampHistory(rec) ==
    HistData(flow_df, rec.camera_id, rec.created_at.hour, WeekdayOf(rec.created_at.day))

\* Q1 - 1.5 * IQR <= x <= Q3 + 1.5 * IQR over column col of hist.
WithinIqrFence(x, hist, col) ==
    LET within(q1, q3) ==
            2 * q1 - 3 * (q3 - q1) <= 8 * x /\ 8 * x <= 2 * q3 + 3 * (q3 - q1)
        quartiles(xs) == within(Quantile4(xs, 1), Quantile4(xs, 3))
    IN  quartiles(SortedCol(hist, col))

\* C4: with at least 3 records of history at (camera, hour, weekday), the
\* pair returned by _apply_sanity_checks lies inside the IQR fence of the
\* history, for inside and for outside.
C4_ClampBound ==
    pc = "insert" =>
        \A i \in 1..Len(estimated_data) :
            Cardinality(ClampHistory(estimated_data[i])) >= 3 =>
                /\ WithinIqrFence(estimated_data[i].total_inside,
                                  ClampHistory(estimated_data[i]), "total_inside")
                /\ WithinIqrFence(estimated_data[i].total_outside,
                                  ClampHistory(estimated_data[i]), "total_outside")

\* C5: every record estimate_missing_data produces has
\* total_inside >= total_outside.
C5_BalanceInvariant ==
    pc = "insert" =>
        \A i \in 1..Len(estimated_data) :
            estimated_data[i].total_inside >= estimated_data[i].total_outside

OnePairProcessed ==
    /\ pc = "summary"
    /\ Len(client_locations) = 1
    /\ faults = 0
    /\ load_data_for_client_location(store_after[run - 1], client_locations[1], DaysBack).ok

\* C7: once process_client_location has ended for a pair with cameras and
\* confirmed data, the store holds a confirmed record for every camera of the
\* pair at every hour of its active range on the target date.
C7_Completeness ==
    OnePairProcessed =>
        \A c \in cameras_df :
            \A h \in SeqToSet(ActiveHours(cameras_df, c, WeekdayOf(target_date))) :
                \E r \in store : /\ r.camera_id = c
                                 /\ r.created_at = Timestamp(target_date, h)
                                 /\ r.valid = 1

\* The entry recorded for a pair whose connection to the store failed.
StorageError(result) ==
    "error" \in DOMAIN result /\ result.error = "unable to open database file"

\* While the batch runs there is one result per pair already passed; at its
\* end there is one per pair, in list order, and every pair the storage layer
\* did not fail has the result it has when processed alone on the store the
\* batch started from.
BatchResults ==
    /\ pc \in {"idle", "load", "detect", "estimate", "insert", "summary"}
    /\ pc \in {"load", "detect", "estimate", "insert"} =>
          Len(all_results) = pair_idx - 1 /\ pair_idx \in 1..Len(client_locations)
    /\ pc = "summary" =>
          /\ Len(all_results) = Len(client_locations)
          /\ \A i \in 1..Len(client_locations) :
                /\ all_results[i].client = client_locations[i][1]
                /\ all_results[i].location = client_locations[i][2]
                /\ \/ StorageError(all_results[i])
                   \/ all_results[i] =
                         process_client_location(store_after[run - 1], client_locations[i])

\* A pair failed on the storage layer and a later pair of the same batch had
\* its failing hours estimated and written.
C8_Witness ==
    /\ pc = "summary"
    /\ \E i \in 1..Len(all_results) : \E j \in 1..Len(all_results) :
          /\ i < j
          /\ StorageError(all_results[i])
          /\ "hours_estimated" \in DOMAIN all_results[j]
          /\ all_results[j].hours_estimated > 0

\* The steps a batch has left at most: 5 per pair not yet begun, the rest of
\* the current pair, and the summary.
StepsLeft ==
    CASE pc = "idle"     -> 0
      [] pc = "summary"  -> 1
      [] pc = "insert"   -> 5 * (Len(client_locations) - pair_idx) + 2
      [] pc = "estimate" -> 5 * (Len(client_locations) - pair_idx) + 3
      [] pc = "detect"   -> 5 * (Len(client_locations) - pair_idx) + 4
      [] pc = "load"     -> 5 * (Len(client_locations) - pair_idx) + 5

\* C8: run_imputation processes every pair of its list once, in list order,
\* whichever pairs raise; a pair after a failing pair has the outcome it has
\* alone; all_results ends with one result per pair; and the batch ends:
\* every step of a running batch leaves fewer steps to take (and each position
\* of a running batch has a step, guarded by the position alone).
C8_IsolationAndCompletion ==
    /\ []BatchResults
    /\ [][pc # "idle" => StepsLeft' < StepsLeft]_vars

\* One invocation on one listed pair has ended and it wrote its estimates.
EstimatesWritten ==
    /\ pc = "summary"
    /\ Len(client_locations) = 1
    /\ "records_inserted" \in DOMAIN all_results[1]
    /\ all_results[1].records_inserted + all_results[1].records_updated > 0

\* C9: every row insert_estimated_data inserted or updated is in the store
\* with valid = 1 and with the provenance flag estimated = 1.
C9_ProvenancePersisted ==
    EstimatesWritten =>
        \A i \in 1..Len(estimated_data) :
            \E r \in store :
                /\ r.camera_id = estimated_data[i].camera_id
                /\ r.created_at = convert_timestamp_for_sqlite(estimated_data[i].created_at)
                /\ r.valid = 1
                /\ "estimated" \in DOMAIN r
                /\ r.estimated = 1

\* Tier 1 yields: some working camera contributes a reference estimate.
CrossUsable(rec) ==
    References(flow_df, cameras_df, cameras_df \ DOMAIN failing_cameras, rec.camera_id,
               rec.created_at.hour, rec.created_at.day) # <<>>

\* Tier 2 yields: at least 2 records at (camera, hour, weekday).
OwnUsable(rec) == Cardinality(ClampHistory(rec)) >= 2

\* C10: the estimate handed to the sanity clamp comes from the first tier that
\* yields, in the order cross-camera, own history, weekday-adjusted average,
\* time-of-day default; the chain never ends with an error, with no estimate
\* or with the (0, 0) placeholder.
C10_FallbackChain ==
    /\ \A i \in 1..Len(all_results) :
          ~("error" \in DOMAIN all_results[i]
              /\ all_results[i].error = "estimate_missing_data raised")
    /\ pc = "insert" =>
          \A i \in 1..Len(estimated_data) :
              /\ estimated_data[i].tier # "none"
              /\ estimated_data[i].tier = "cross" <=> CrossUsable(estimated_data[i])
              /\ estimated_data[i].tier = "own" <=>
                    (~CrossUsable(estimated_data[i]) /\ OwnUsable(estimated_data[i]))

\* A camera is flagged at an hour at which it has a target-date value, and
\* another camera of the pair is estimated at that hour.
C11_Witness ==
    /\ pc = "insert"
    /\ \E c \in cameras_df : \E i \in 1..Len(estimated_data) :
          /\ estimated_data[i].camera_id # c
          /\ Flagged(c, estimated_data[i].created_at.hour)
          /\ TargetRows(flow_df, c, target_date, estimated_data[i].created_at.hour) # {}

\* C11: a camera whose target-date value entered the reference estimates of
\* a record is not flagged at the record's hour (and is not the camera being
\* estimated); a cross-camera estimate has at least one such reference; and
\* when every camera of the pair is flagged at the hour, the record has no
\* reference and does not come from cross-camera estimation.
C11_NoFailingReference ==
    pc = "insert" =>
        \A i \in 1..Len(estimated_data) :
            /\ \A k \in 1..Len(estimated_data[i].refs) :
                  /\ estimated_data[i].refs[k] # estimated_data[i].camera_id
                  /\ ~Flagged(estimated_data[i].refs[k], estimated_data[i].created_at.hour)
            /\ estimated_data[i].tier = "cross" => estimated_data[i].refs # <<>>
            /\ (\A c \in cameras_df : Flagged(c, estimated_data[i].created_at.hour)) =>
                  estimated_data[i].tier # "cross" /\ estimated_data[i].refs = <<>>

\* C12: a pair without cameras, or whose cameras have no confirmed record in
\* the lookback window, is skipped with nothing written and its result is a
\* success with zero work: success = true, every counter 0, no error.
C12_SkippedPairIsSuccess ==
    \A i \in 1..Len(all_results) :
        (/\ ~StorageError(all_results[i])
         /\ ~load_data_for_client_location(store_after[run - 1], client_locations[i],
                                           DaysBack).ok)
            => all_results[i] = Result(client_locations[i], TRUE, 0, 0, 0, 0, 0)

\* The run log only grows: every row a step finds is still there, unchanged
\* and at the same position.
LogAppendOnly ==
    /\ Len(data_imputation_log') >= Len(data_imputation_log)
    /\ SubSeq(data_imputation_log', 1, Len(data_imputation_log)) = data_imputation_log

\* C13: when an invocation of run_imputation reaches its summary, the run log
\* has gained exactly one row per pair of the list, in list order (so it
\* holds one row per pair per invocation, whatever the pair's outcome), and
\* no step modifies or removes a row of the log.
C13_OneLogRowPerPair ==
    /\ [](pc = "summary" =>
            /\ Len(data_imputation_log) = run * Len(client_locations)
            /\ \A i \in 1..Len(client_locations) :
                  LET row == data_imputation_log[(run - 1) * Len(client_locations) + i]
                  IN  row.client = client_locations[i][1]
                        /\ row.location = client_locations[i][2])
    /\ [][LogAppendOnly]_vars

\* C14: get_camera_active_hours returns, for a known or unknown camera, any
\* weekday and any stored entry (null, negative, above 23, start after end),
\* a pair (start, end) with 0 <= start <= end <= 23; a null entry yields the
\* default range.
C14_ScheduleRange ==
    (call_result # <<>> /\ call_args.method = "get_camera_active_hours") =>
        /\ 0 <= call_result[1][1]
        /\ call_result[1][1] <= call_result[1][2]
        /\ call_result[1][2] <= 23
        /\ (call_args.entry[1] = Null \/ call_args.entry[2] = Null) =>
              call_result[1] = ResolveSchedule(FALSE, call_args.weekday, call_args.entry)

\* The store holds a row, of any validity, under the key of the record.
KeyPresent(st, rec) ==
    \E r \in st : /\ r.camera_id = rec.camera_id
                   /\ r.created_at = Timestamp(rec.created_at.day, rec.created_at.hour)

WriterCounts ==
    LET result == all_results'[Len(all_results')]
        absent == {i \in 1..Len(estimated_data) : ~KeyPresent(store, estimated_data[i])}
        present == {i \in 1..Len(estimated_data) : KeyPresent(store, estimated_data[i])}
    IN  /\ "error" \notin DOMAIN result
        /\ result.records_inserted = Cardinality(absent)
        /\ result.records_updated = Cardinality(present)
        /\ result.records_inserted + result.records_updated = Len(estimated_data)
        /\ \A i \in 1..Len(estimated_data) :
              \E r \in store' : /\ r.camera_id = estimated_data[i].camera_id
                                /\ r.created_at = Timestamp(estimated_data[i].created_at.day,
                                                             estimated_data[i].created_at.hour)
                                /\ r.total_inside = estimated_data[i].total_inside
                                /\ r.total_outside = estimated_data[i].total_outside
                                /\ r.valid = 1

StoreAfterPair(st, pair) ==
    LET estimated(e) == IF e.error THEN st ELSE insert_estimated_data(st, e.records).store
        detected(l, day, f) ==
            IF DOMAIN f = {} THEN st
            ELSE estimated(estimate_missing_data(l.flow_df, l.cameras_df, f, day))
        dated(l, day) == detected(l, day, identify_failing_cameras(l.flow_df, l.cameras_df, day))
        loaded(l) == IF ~l.ok THEN st ELSE dated(l, get_last_valid_day(l.flow_df))
    IN  loaded(load_data_for_client_location(st, pair, DaysBack))

\* What a store holds, whatever rowids the rows were given.
Contents(st) ==
    {[camera_id |-> r.camera_id, created_at |-> r.created_at, total_inside |-> r.total_inside,
      total_outside |-> r.total_outside, valid |-> r.valid] : r \in st}

DistinctPairs == workers # <<>> /\ workers[1].pair # workers[2].pair

AllDone == workers # <<>> /\ \A e \in DOMAIN workers : workers[e].pc = "done"

\* Two workers on distinct pairs both wrote a batch, the worker of the
\* second pair finishing before the worker of the first.
C16_Witness ==
    /\ DistinctPairs
    /\ AllDone
    /\ \A e \in DOMAIN workers : workers[e].inserted + workers[e].updated > 0
    /\ Len(data_imputation_log) = 2
    /\ data_imputation_log[1].location = PairB[2]
    /\ data_imputation_log[2].location = PairA[2]

\* A step of a worker changes only rows of the cameras of its pair.
OwnWrites ==
    \A e \in DOMAIN workers :
        workers'[e] # workers[e] =>
            \A r \in (store' \ store) \cup (store \ store') :
                r.camera_id \in CamerasOf(workers[e].pair)

\* What a worker loaded and what it wrote in its open transaction are rows
\* of its own cameras.
OwnReads ==
    \A e \in DOMAIN workers :
        /\ \A r \in workers[e].flow_df : r.camera_id \in CamerasOf(workers[e].pair)
        /\ \A i \in 1..Len(workers[e].estimated_data) :
              workers[e].estimated_data[i].camera_id \in CamerasOf(workers[e].pair)

\* C16: two workers on distinct pairs with disjoint cameras, whatever the
\* interleaving of their load, detect, estimate and write steps, leave the
\* store with the contents that processing the first pair and then the
\* second leaves; each worker's writes change only rows of its own cameras,
\* and what it loads for detection and estimation are rows of its own
\* cameras.
C16_CrossPairIndependence ==
    /\ [](DistinctPairs =>
            /\ OwnReads
            /\ AllDone =>
                  Contents(store) =
                    Contents(StoreAfterPair(StoreAfterPair(store_after[0], workers[1].pair),
                                            workers[2].pair)))
    /\ [][DistinctPairs => OwnWrites]_vars

SamePair == workers # <<>> /\ workers[1].pair = workers[2].pair

\* Worker e committed its batch.
Committed(e) == workers[e].pc \in {"log", "done"} /\ workers[e].k > 1

\* Every record a worker committed is in the store under its key, confirmed,
\* with the counts that a committed batch gave to that key.
UpdatesKept ==
    \A e \in DOMAIN workers :
        Committed(e) =>
            \A i \in 1..Len(workers[e].estimated_data) :
                \E r \in store, o \in DOMAIN workers, j \in 1..Len(workers[e].estimated_data) :
                    /\ Committed(o)
                    /\ j <= Len(workers[o].estimated_data)
                    /\ KeyPresent({r}, workers[e].estimated_data[i])
                    /\ KeyPresent({r}, workers[o].estimated_data[j])
                    /\ r.valid = 1
                    /\ r.total_inside = workers[o].estimated_data[j].total_inside
                    /\ r.total_outside = workers[o].estimated_data[j].total_outside

\* C17: with two workers on the same pair and target date, no interleaving
\* of their existence checks and the INSERT or UPDATE that follows leaves
\* two rows under one (camera, timestamp) key or loses a committed update.
C17_AtomicUpsert == SamePair => UniqueKeys(store) /\ UpdatesKept

\* C18: the statistics identify_failing_cameras judges a present record of
\* the target date against come from the records of that camera, hour and
\* weekday dated before the target date: the judged record is not among
\* them and does not add to the sample count.
C18_HistoryExcludesTarget ==
    pc = "detect" =>
        \A c \in cameras_df :
            \A h \in SeqToSet(ActiveHours(cameras_df, c, WeekdayOf(target_date))) :
                TargetRows(flow_df, c, target_date, h) # {} =>
                    /\ TargetRows(flow_df, c, target_date, h)
                          \cap HistData(flow_df, c, h, WeekdayOf(target_date)) = {}
                    /\ _get_historical_statistics(flow_df, c, h, WeekdayOf(target_date))
                          = PriorStatistics(flow_df, c, h, target_date)

\* One of the statistical criteria flags the record against statistics st.
StatisticalReason(row, st) ==
    \/ TenTimesLower(row.total_inside + row.total_outside, st)
    \/ BelowFifthOfMean(row.total_inside + row.total_outside, st)
    \/ OutsideThreeSigma(row.total_inside + row.total_outside, st)
    \/ AbnormalBalance(row.total_inside, row.total_outside)

\* The floor rule for one present record judged against statistics st.
FloorRule(flagged, row, st) ==
    /\ st.count < 3 => (flagged <=> BelowAbsoluteFloor(row.total_inside + row.total_outside))
    /\ st.count >= 3 => (flagged => StatisticalReason(row, st))

\* C19: a present record at an active hour is judged by the absolute floor
\* (failing iff inside + outside < 10) exactly when the sample count of its
\* (camera, hour, weekday) statistics is below 3; with a count of 3 or more
\* an hour is flagged only for one of the statistical criteria.
C19_AbsoluteFloor ==
    pc = "estimate" =>
        \A c \in cameras_df :
            \A h \in SeqToSet(ActiveHours(cameras_df, c, WeekdayOf(target_date))) :
                TargetRows(flow_df, c, target_date, h) # {} =>
                    FloorRule(Flagged(c, h), MinId(TargetRows(flow_df, c, target_date, h)),
                              _get_historical_statistics(flow_df, c, h, WeekdayOf(target_date)))

\* Two fractions of positive denominator are the same number.
RatEq(a, b) == a.num * b.den = b.num * a.den

\* 0.1 < r < 10
WithinRatioBand(r) == r.den < 10 * r.num /\ r.num < 10 * r.den

\* The ratio of spec 4.5: 0 with fewer than 2 common dates, else the median of
\* the per-date ratios that lie strictly between 0.1 and 10 (0 if none does).
BandedRatio(flow, camera_a, camera_b, hour, weekday) ==
    LET median(r, kept) ==
            IF Cardinality(CommonDates(flow, camera_a, camera_b, hour, weekday)) < 2
               \/ kept = {}
            THEN [num |-> 0, den |-> 1]
            ELSE Median(SortedRatios(r, kept))
        banded(r) == median(r, {d \in DOMAIN r : WithinRatioBand(r[d])})
    IN  banded(DateRatios(flow, camera_a, camera_b, hour, weekday))

\* C20: the ratio estimate_missing_data uses for a failing camera, another
\* camera of the pair and a failing hour is 0 when the two have fewer than 2
\* common dates at that hour and weekday, and otherwise the median of the
\* per-date ratios total_B / total_A that lie strictly between 0.1 and 10.
C20_CrossCameraRatio ==
    pc = "estimate" =>
        \A a \in DOMAIN failing_cameras :
            \A b \in cameras_df \ {a} :
                \A h \in SeqToSet(failing_cameras[a]) :
                    RatEq(_get_hourly_ratio(flow_df, a, b, h, WeekdayOf(target_date)),
                          BandedRatio(flow_df, a, b, h, WeekdayOf(target_date)))

\* e is x / q truncated to an integer, for x >= 0 and a ratio q > 0.
TruncatedQuotient(e, x, q) == e * q.num <= x * q.den /\ x * q.den < (e + 1) * q.num

\* The candidate a reference gave is its target-date counts divided by the
\* ratio, truncated; 30 / 24 at ratio 2.0 gives 15 / 12.
CandidateOf(row, q, e) ==
    /\ q.num > 0
    /\ TruncatedQuotient(e[1], row.total_inside, q)
    /\ TruncatedQuotient(e[2], row.total_outside, q)
    /\ (q.num = 2 * q.den /\ row.total_inside = 30 /\ row.total_outside = 24) => e = <<15, 12>>

\* Camera 1 was estimated at hour 10 from camera 2 alone, camera 2 reporting
\* 30 / 24 at a ratio of 2.0.
C21_Witness ==
    /\ pc = "insert"
    /\ \E i \in 1..Len(estimated_data) :
          /\ estimated_data[i].camera_id = 1
          /\ estimated_data[i].created_at.hour = 10
          /\ estimated_data[i].refs = <<2>>
          /\ estimated_data[i].tier = "cross"
    /\ ReferenceEstimate(flow_df, 1, 2, 10, target_date) = <<15, 12>>
    /\ RatEq(_get_hourly_ratio(flow_df, 1, 2, 10, WeekdayOf(target_date)), [num |-> 2, den |-> 1])

\* C21: for every estimated record and every reference B that entered it, the
\* candidate B contributed is (in_B / r, out_B / r) truncated to integers, r
\* being the ratio B / A > 0 and (in_B, out_B) the target-date counts of B at
\* the hour; with r = 2.0 and B at 30 / 24 the candidate is 15 / 12.
C21_CrossCameraPoint ==
    pc = "insert" =>
        \A i \in 1..Len(estimated_data) :
            \A j \in 1..Len(estimated_data[i].refs) :
                CandidateOf(MinId(TargetRows(flow_df, estimated_data[i].refs[j], target_date,
                                             estimated_data[i].created_at.hour)),
                            _get_hourly_ratio(flow_df, estimated_data[i].camera_id,
                                              estimated_data[i].refs[j],
                                              estimated_data[i].created_at.hour,
                                              WeekdayOf(target_date)),
                            ReferenceEstimate(flow_df, estimated_data[i].camera_id,
                                              estimated_data[i].refs[j],
                                              estimated_data[i].created_at.hour, target_date))

\* The per-date ratios that lie strictly between 0.1 and 10.
Retained(r) == [d \in {x \in DOMAIN r : WithinRatioBand(r[x])} |-> r[d]]

\* std / mean > 0.5 over the values R, however many they are (the comparison
\* of SpreadAbove does not depend on the count).
CvAboveHalf(R) == SpreadAbove(3, SumOver(R, DOMAIN R), PairSpread(R))

\* The confidence of spec 4.5 in twentieths: min(n / 10, 1.0) for n >= 2
\* common dates, halved when the retained ratios are dispersed.
BandedConfidence(flow, camera_a, camera_b, hour, weekday) ==
    LET confidence(n, dispersed) ==
            IF n < 2 THEN 0
            ELSE IF dispersed THEN Min2(n, 10) ELSE Min2(2 * n, 20)
    IN  confidence(Cardinality(CommonDates(flow, camera_a, camera_b, hour, weekday)),
                   CvAboveHalf(Numerators(Retained(
                       DateRatios(flow, camera_a, camera_b, hour, weekday)))))

\* C22: the confidence of the ratio between a failing camera and another
\* camera of the pair at a failing hour is 0 with fewer than 2 common dates,
\* otherwise min(common dates / 10, 1.0), halved exactly when the coefficient
\* of variation of the ratios retained by the (0.1, 10) filter exceeds 0.5,
\* whatever their number; it lies between 0 and 1.
C22_RatioConfidence ==
    pc = "estimate" =>
        \A a \in DOMAIN failing_cameras :
            \A b \in cameras_df \ {a} :
                \A h \in SeqToSet(failing_cameras[a]) :
                    /\ _get_ratio_confidence(flow_df, a, b, h, WeekdayOf(target_date)) \in 0..20
                    /\ _get_ratio_confidence(flow_df, a, b, h, WeekdayOf(target_date))
                          = BandedConfidence(flow_df, a, b, h, WeekdayOf(target_date))

\* The combination of spec 4.6: the weighted mean of the candidates, blended
\* 70 / 30 with the own-history estimate whenever the baseline has one for
\* the hour (own_tier = "own"), whatever its values.
FusedEstimate(reference_estimates, reference_weights, own_history_estimate, own_tier) ==
    LET idx == 1..Len(reference_estimates)
        A(k) == SumOver([i \in idx |-> reference_estimates[i][k] * reference_weights[i]], idx)
        final(a, o, W) ==
            IF own_tier = "own"
            THEN IF a % W = 0
                 THEN Blend7030(a \div W, o)
                 ELSE (7 * a + 3 * o * W) \div (10 * W)
            ELSE a \div W
        fused(W) == <<final(A(1), own_history_estimate[1], W),
                      final(A(2), own_history_estimate[2], W)>>
    IN  fused(SumOver(reference_weights, idx))

\* What the fusion of spec 4.6 gives for an estimated record with references.
FusedFor(rec) ==
    LET own(base) ==
            IF rec.created_at.hour \in DOMAIN base.baseline
            THEN <<base.baseline[rec.created_at.hour], "own">> ELSE <<(<<0, 0>>), "none">>
        fused(o) ==
            FusedEstimate(
                [i \in 1..Len(rec.refs) |->
                    ReferenceEstimate(flow_df, rec.camera_id, rec.refs[i], rec.created_at.hour,
                                      target_date)],
                [i \in 1..Len(rec.refs) |->
                    _get_ratio_confidence(flow_df, rec.camera_id, rec.refs[i],
                                          rec.created_at.hour, WeekdayOf(target_date))],
                o[1], o[2])
    IN  fused(own(_get_own_history_baseline(flow_df, cameras_df, rec.camera_id,
                                            <<rec.created_at.hour>>, target_date)))

\* C23: the value _combine_estimates returns for an hour with at least one
\* cross-camera candidate is the confidence-weighted mean of the candidates,
\* and 0.7 * that mean + 0.3 * own-history estimate whenever the own-history
\* baseline has an estimate for the hour, zero counts included.
C23_WeightedFusion ==
    pc = "insert" =>
        \A i \in 1..Len(estimated_data) :
            estimated_data[i].refs # <<>> =>
                /\ estimated_data[i].tier = "cross"
                /\ estimated_data[i].raw = FusedFor(estimated_data[i])

\* The cameras eligible as references for camera a at hour h: active at h,
\* with a confirmed record of the target date at h, not flagged at h, and
\* with a ratio to a above 0.
EligibleAt(a, h) ==
    {b \in cameras_df \ {a} :
        /\ h \in SeqToSet(ActiveHours(cameras_df, b, WeekdayOf(target_date)))
        /\ TargetRows(flow_df, b, target_date, h) # {}
        /\ ~Flagged(b, h)
        /\ _get_hourly_ratio(flow_df, a, b, h, WeekdayOf(target_date)).num > 0}

\* C24: at a failing hour of a camera the cameras whose values enter the
\* cross-camera combination are exactly the other cameras that are active
\* at that hour, have a confirmed target-date record at it, are not flagged
\* at it and have a usable ratio; a camera flagged at other hours only is
\* still a reference.
C24_EligibilityPerHour ==
    pc = "insert" =>
        \A i \in 1..Len(estimated_data) :
            SeqToSet(estimated_data[i].refs)
                = EligibleAt(estimated_data[i].camera_id, estimated_data[i].created_at.hour)

\* e is the median of column col over the records S, truncated.
TruncatedMedian(e, S, col) ==
    LET between(q) == 4 * e <= q /\ q < 4 * e + 4
    IN  between(Quantile4(SortedCol(S, col), 2))

\* The own-history estimate of spec 4.4 against what the baseline holds for
\* hour h: an entry exactly with 2 or more prior records, and then their
\* medians.
MedianBaseline(base, prior, h) ==
    /\ ~base.error
    /\ h \in DOMAIN base.baseline <=> Cardinality(prior) >= 2
    /\ h \in DOMAIN base.baseline =>
          /\ TruncatedMedian(base.baseline[h][1], prior, "total_inside")
          /\ TruncatedMedian(base.baseline[h][2], prior, "total_outside")

\* C25: for a failing camera and hour the own-history estimate is the pair
\* of medians of inside and of outside over the records of that camera, hour
\* and weekday dated before the target date, without the weekday factor,
\* and there is none with fewer than 2 such records.
C25_OwnHistoryMedian ==
    (pc = "estimate" /\ cameras_df \ DOMAIN failing_cameras # {}) =>
        \A c \in DOMAIN failing_cameras :
            \A h \in SeqToSet(failing_cameras[c]) :
                MedianBaseline(_get_own_history_baseline(flow_df, cameras_df, c,
                                                         failing_cameras[c], target_date),
                               PriorHistory(flow_df, c, h, target_date), h)

\* The loaded records of camera c on weekday wd inside its active range.
ActiveRecords(c, wd) ==
    {r \in flow_df : /\ r.camera_id = c
                     /\ WeekdayOf(DateOf(r.created_at)) = wd
                     /\ HourOf(r.created_at) \in SeqToSet(ActiveHours(cameras_df, c, wd))}

WeekdaysWithData(c) == {wd \in 0..6 : ActiveRecords(c, wd) # {}}

\* Average traffic per active hour with data of camera c on weekday wd.
HourlyAverage(c, wd) ==
    [num |-> SumTotal(ActiveRecords(c, wd)),
     den |-> Cardinality({HourOf(r.created_at) : r \in ActiveRecords(c, wd)})]

RECURSIVE SumOfAverages(_, _)
SumOfAverages(c, WD) ==
    IF WD = {} THEN [num |-> 0, den |-> 1]
    ELSE LET wd == CHOOSE x \in WD : TRUE
             add(a, b) == [num |-> a.num * b.den + b.num * a.den, den |-> a.den * b.den]
         IN  add(HourlyAverage(c, wd), SumOfAverages(c, WD \ {wd}))

\* f is the average of weekday wd over the mean of the averages (left open
\* where that mean is 0).
IsRelativeAverage(f, avg, total, n) ==
    total.num > 0 => f.num * total.num * avg.den = f.den * n * avg.num * total.den

\* The factor table of spec 4.4 for camera c against the table f.
NearestFilled(c, f, WD) ==
    \A wd \in 0..6 :
        IF wd \in WD
        THEN IsRelativeAverage(f[wd], HourlyAverage(c, wd), SumOfAverages(c, WD),
                               Cardinality(WD))
        ELSE \E o \in WD : /\ \A q \in WD : Abs(wd - o) <= Abs(wd - q)
                            /\ RatEq(f[wd], f[o])

\* C26: for a camera with records in its active hours, _get_weekday_patterns
\* gives every weekday a factor: for a weekday with data its average traffic
\* per active hour over the mean of these averages, and for a weekday
\* without data the factor of a weekday with data at minimal distance.
C26_WeekdayFactors ==
    pc = "detect" =>
        \A c \in cameras_df :
            WeekdaysWithData(c) # {} =>
                /\ DOMAIN _get_weekday_patterns(flow_df, cameras_df, c) = 0..6
                /\ NearestFilled(c, _get_weekday_patterns(flow_df, cameras_df, c),
                                 WeekdaysWithData(c))

\* C27: after a load that the cache of robot_new.py answered, cameras_df,
\* flow_df and the confirmed-only view flow_df_valid equal what the load of
\* that pair from the store produced, and the view the detector reads holds
\* records of the pair's cameras only.
C27_CacheTransparency ==
    (call_result # <<>> /\ call_result[2] = "cache") =>
        /\ cameras_df = CamerasOf(call_args[Len(call_args)])
        /\ flow_df = LoadFlowOrNull(store, CamerasOf(call_args[Len(call_args)]), DaysBack)
        /\ flow_df_valid = ValidView(LoadFlowOrNull(store, CamerasOf(call_args[Len(call_args)]),
                                                    DaysBack))
        /\ \A r \in flow_df_valid : r.camera_id \in cameras_df

\* The rows a step created, changed or removed.
RowsTouched == (store' \ store) \cup (store \ store')

\* A first invocation has written estimates and left in place a target-date
\* record of the pair that the detector judged healthy.
C28_Witness ==
    /\ pc = "summary"
    /\ run = 1
    /\ store # store_after[0]
    /\ \E r \in store \cap store_after[0] :
          /\ r.camera_id \in cameras_df
          /\ DateOf(r.created_at) = target_date
          /\ ~Flagged(r.camera_id, HourOf(r.created_at))
    /\ \E r \in store_after[0] \ store : r.valid = 1

\* The frame of one step: detection and estimation leave the store and the
\* loaded working set alone, only the write step touches the store, and
\* the rows it touches are keyed by a flagged (camera, hour) of the target
\* date.
PairFrame ==
    /\ pc \in {"detect", "estimate"} => UNCHANGED <<store, cameras_df, flow_df>>
    /\ pc # "insert" => store' = store
    /\ \A r \in RowsTouched :
          /\ DateOf(r.created_at) = target_date
          /\ Flagged(r.camera_id, HourOf(r.created_at))
    /\ (pc = "detect" /\ DOMAIN failing_cameras' = {}) => store' = store

\* C28: identify_failing_cameras and estimate_missing_data change neither
\* the store nor cameras_df and flow_df; over process_client_location the
\* only rows created or changed are those keyed (camera, target date, hour)
\* for a (camera, hour) the detector flagged, every other row staying as it
\* was; with an empty failing set the store is unchanged.
C28_PairFrame == [][PairFrame]_vars

\* The rows a store holds under the key of a record.
RowsUnderKey(st, rec) ==
    {r \in st : /\ r.camera_id = rec.camera_id
                 /\ r.created_at = Timestamp(rec.created_at.day, rec.created_at.hour)}

\* The storage layer raised at one record of a batch of several, and the
\* writer returned with the other records counted.
C29_Witness ==
    /\ call_args # <<>>
    /\ Cardinality(call_args[1]) = 1
    /\ call_result[1] + call_result[2] >= 1
    /\ all_results # <<>>
    /\ "records_inserted" \in DOMAIN all_results[Len(all_results)]
    /\ all_results[Len(all_results)].hours_estimated >= 2

\* The step that writes a batch while the storage layer raises at the
\* positions in failed.
IsolatedWrite ==
    LET failed == call_args'[1]
        result == all_results'[Len(all_results')]
        written == (1..Len(estimated_data)) \ failed
        absent == {i \in written : ~KeyPresent(store, estimated_data[i])}
        present == {i \in written : KeyPresent(store, estimated_data[i])}
    IN  /\ Len(all_results') = Len(all_results) + 1
        /\ pc' \in {"load", "summary"}
        /\ "error" \notin DOMAIN result
        /\ result.success
        /\ result.records_inserted = Cardinality(absent)
        /\ result.records_updated = Cardinality(present)
        /\ call_result' = <<result.records_inserted, result.records_updated>>
        /\ \A i \in failed :
              RowsUnderKey(store', estimated_data[i]) = RowsUnderKey(store, estimated_data[i])
        /\ \A i \in written :
              \E r \in RowsUnderKey(store', estimated_data[i]) :
                  /\ r.total_inside = estimated_data[i].total_inside
                  /\ r.total_outside = estimated_data[i].total_outside
                  /\ r.valid = 1

\* C29: when the storage layer raises while one record of a batch is checked
\* or written, insert_estimated_data counts that record neither as inserted
\* nor as updated and leaves the rows under its key as they were, writes
\* every other record of the batch, and returns normally: the pair completes
\* with a successful result that carries the counts of the records written.
C29_WriteIsolation == [][(pc = "insert" /\ faults' # faults) => IsolatedWrite]_vars

\* The number of (camera, hour) slots in a failing set of the detector.
FlaggedSlots(failing) ==
    SumOver([c \in DOMAIN failing |-> Len(failing[c])], DOMAIN failing)

\* The result a step appended when process_client_location returned.
ReturnedResult ==
    /\ Len(all_results') = Len(all_results) + 1
    /\ "error" \notin DOMAIN all_results'[Len(all_results')]

\* The counters of the result a step appended, against the failing set the
\* detector returned for the pair (none when the step is the load).
ConsistentCounters ==
    LET result == all_results'[Len(all_results')]
        slots == IF pc = "load" THEN 0 ELSE FlaggedSlots(failing_cameras')
    IN  /\ result.failing_cameras <= result.cameras_loaded
        /\ result.hours_estimated = slots
        /\ faults' = faults =>
              result.records_inserted + result.records_updated = result.hours_estimated

\* The per-pair results process_client_location returned in this invocation.
Returned == {i \in 1..Len(all_results) : "error" \notin DOMAIN all_results[i]}

\* The totals of the final summary are the sums of the fields of the
\* returned results, and inherit their relations.
ConsistentTotals ==
    LET total_cameras == SummaryTotal(all_results, "cameras_loaded")
        total_failing == SummaryTotal(all_results, "failing_cameras")
        total_hours == SummaryTotal(all_results, "hours_estimated")
        total_inserted == SummaryTotal(all_results, "records_inserted")
        total_updated == SummaryTotal(all_results, "records_updated")
    IN  /\ total_cameras = SumOver([i \in Returned |-> all_results[i].cameras_loaded], Returned)
        /\ total_failing = SumOver([i \in Returned |-> all_results[i].failing_cameras], Returned)
        /\ total_hours = SumOver([i \in Returned |-> all_results[i].hours_estimated], Returned)
        /\ total_inserted =
              SumOver([i \in Returned |-> all_results[i].records_inserted], Returned)
        /\ total_updated =
              SumOver([i \in Returned |-> all_results[i].records_updated], Returned)
        /\ total_failing <= total_cameras
        /\ call_args = <<>> => total_inserted + total_updated = total_hours

\* A run reached its summary, no record write having raised, with a result
\* that counts more flagged slots than failing cameras and at least two
\* records written.
C30_Witness ==
    /\ pc = "summary"
    /\ call_args = <<>>
    /\ \E i \in Returned :
          /\ all_results[i].hours_estimated > all_results[i].failing_cameras
          /\ all_results[i].failing_cameras >= 1
          /\ all_results[i].records_inserted + all_results[i].records_updated >= 2

\* C30: for every result process_client_location returns, failing_cameras
\* is at most cameras_loaded, hours_estimated is the number of (camera,
\* hour) slots in the failing set the detector returned, and when no record
\* write raised records_inserted + records_updated = hours_estimated; the
\* totals of the batch summary are the sums of these fields over the
\* returned results.
C30_CounterConsistency ==
    /\ [][ReturnedResult => ConsistentCounters]_vars
    /\ [](pc = "summary" => ConsistentTotals)

====
